---- MODULE Spec2Model ----
(***************************************************************************)
(* codecbench (src/codecbench.cpp): the streaming video container          *)
(* (VideoReader / VideoWriter), the pixel-format resolver                   *)
(* (GetDecompFormat), the command-line parser (ArgvParser,                  *)
(* CodecBench::initArguments) and the frame pipeline (CodecBench::init,     *)
(* CodecBench::run, main).                                                  *)
(*                                                                         *)
(* Files are sequences of bytes; 32-bit words are stored little-endian as  *)
(* the target platform (Windows, x86) stores them.  A std::vector<char> is *)
(* a record [size, data]: data holds the leading bytes up to the last      *)
(* non-zero one, every byte from Len(data)+1 to size is zero.              *)
(*                                                                         *)
(* A 32-bit word (uint32_t, DWORD, int, LONG) is held as the integer whose *)
(* two's complement bits it has: an unsigned value of 2^31 or more is the  *)
(* negative integer with the same 32 bits.  Sums wrap as the machine's do. *)
(*                                                                         *)
(* main is followed step by step (pc): the parts of init, then the loop of *)
(* run() in stretches between which the SIGINT handler may run.  s_stop is *)
(* a plain bool written by the handler and read by the loop condition; the *)
(* write is taken to be seen by every later read (the loop body calls      *)
(* library functions, so the condition reloads it each time round).        *)
(* Memory allocation is taken to succeed.  The codecs are the environment: *)
(* which negotiation call fails is an input of the run, and a codec's      *)
(* output is a function of the bytes it is handed.                         *)
(***************************************************************************)
EXTENDS Integers, Sequences, FiniteSets, TLC

(***************************************************************************)
(* Bounds of the model.                                                    *)
(***************************************************************************)
\* most frames the harness writes through a VideoWriter
MaxFrames == 2
\* longest frame the harness writes
MaxFrameLen == 2
\* largest value given to -loop
MaxLoop == 2
\* largest value given to -frames
MaxLimit == 3

(***************************************************************************)
(* Program constants.                                                      *)
(***************************************************************************)
\* 0xABCDEF01
Magic == -1412567295
SizeofBITMAPINFOHEADER == 40
BI_RGB == 0
MaxInt32 == 2147483647

(***************************************************************************)
(* Integers and bytes.                                                     *)
(***************************************************************************)
Min(a, b) == IF a < b THEN a ELSE b
Max(a, b) == IF a > b THEN a ELSE b
Abs(a) == IF a < 0 THEN -a ELSE a

\* C integer division: truncates toward zero
CDiv(a, b) == IF a >= 0 THEN a \div b ELSE -((-a) \div b)

\* unsigned order of two words
ULess(a, b) == IF (a < 0) = (b < 0) THEN a < b ELSE b < 0
\* an unsigned value of 2^31 or more: more than any file of the model holds
IsHuge(n) == n < 0
\* 32-bit addition
AddWord(a, b) ==
  IF a >= 0 /\ b >= 0 /\ a > MaxInt32 - b THEN (a - MaxInt32 - 1) + (b - MaxInt32 - 1)
  ELSE IF a < 0 /\ b < 0 /\ a < (-MaxInt32 - 1) - b THEN (a + MaxInt32 + 1) + (b + MaxInt32 + 1)
  ELSE a + b

\* a 32-bit word as it lies in memory and in the file
ToLE32(n) ==
  << n % 256, (n \div 256) % 256, (n \div 65536) % 256, (n \div 16777216) % 256 >>
ToLE16(n) == << n % 256, (n \div 256) % 256 >>
LE32(b) ==
  b[1] + 256 * b[2] + 65536 * b[3] + 16777216 * (IF b[4] >= 128 THEN b[4] - 256 ELSE b[4])

Zeros(n) == [i \in 1..n |-> 0]
Take(s, n) == IF IsHuge(n) THEN s ELSE SubSeq(s, 1, Min(n, Len(s)))
Drop(s, n) == SubSeq(s, n + 1, Len(s))

\* bytes an uninitialised object or an out-of-bounds read can show
GarbageByte == {0, 171, 255}

(***************************************************************************)
(* std::vector<char>                                                       *)
(***************************************************************************)
StripZeros(d) ==
  LET nz == {i \in 1..Len(d) : d[i] # 0}
  IN  IF nz = {} THEN << >>
      ELSE SubSeq(d, 1, CHOOSE i \in nz : \A j \in nz : j <= i)

Vec(size, d) == [size |-> size, data |-> StripZeros(Take(d, size))]
VecResize(v, n) == Vec(n, v.data)
\* bytes copied to the front of the vector (memcpy, istream::read)
VecStore(v, bytes) == Vec(v.size, bytes \o Drop(v.data, Len(bytes)))
\* the byte at index i (from 1); g is what a read past the end shows
VecAt(v, i, g) ==
  IF ULess(v.size, i) THEN g ELSE IF i <= Len(v.data) THEN v.data[i] ELSE 0
VecBytes(v, n, g) == [i \in 1..n |-> VecAt(v, i, g)]

(***************************************************************************)
(* BITMAPINFOHEADER: the fields at their byte offsets.                     *)
(***************************************************************************)
FieldU32(v, off, g) == LE32([i \in 1..4 |-> VecAt(v, off + i, g)])
biSize(v, g) == FieldU32(v, 0, g)
biWidth(v, g) == FieldU32(v, 4, g)
biHeight(v, g) == FieldU32(v, 8, g)
biCompression(v, g) == FieldU32(v, 16, g)
biSizeImage(v, g) == FieldU32(v, 20, g)

MakeBIH(size, width, height, bitCount, compression, sizeImage, extra) ==
  ToLE32(size) \o ToLE32(width) \o ToLE32(height) \o ToLE16(1) \o ToLE16(bitCount)
    \o ToLE32(compression) \o ToLE32(sizeImage) \o Zeros(16) \o extra

SetField(v, off, val) ==
  LET cur == VecBytes(v, v.size, 0)
  IN  Vec(v.size, [i \in 1..v.size |->
                     IF i > off /\ i <= off + 4 THEN ToLE32(val)[i - off] ELSE cur[i]])

\* mmioFOURCC
FourCC(a, b, c, d) == a + 256 * b + 65536 * c + 16777216 * d

(***************************************************************************)
(* Strings are sequences of characters.                                    *)
(***************************************************************************)
NULL == << "NULL" >>

S_RGB24 == << "R", "G", "B", "2", "4" >>
S_bgr24 == << "b", "g", "r", "2", "4" >>
S_RGB32 == << "R", "G", "B", "3", "2" >>
S_bgr32 == << "b", "g", "r", "3", "2" >>
S_BGRA == << "B", "G", "R", "A" >>
S_AYUV == << "A", "Y", "U", "V" >>
S_YUY2 == << "Y", "U", "Y", "2" >>
S_UYVY == << "U", "Y", "V", "Y" >>
S_YV12 == << "Y", "V", "1", "2" >>
S_YV24 == << "Y", "V", "2", "4" >>
S_Y8 == << "Y", "8" >>
S_b64a == << "b", "6", "4", "a" >>
S_b48r == << "b", "4", "8", "r" >>
S_v210 == << "v", "2", "1", "0" >>
S_r210 == << "r", "2", "1", "0" >>

(***************************************************************************)
(* align_to<4> and GetDecompFormat                                         *)
(***************************************************************************)
\* (T)((uintptr_t(val) + 3) / 4 * 4)
align_to4(val) == ((val + 3) \div 4) * 4

\* the sizes computed from the height as given, sign included
FormatRule_signed(format, w, h) ==
  CASE format \in {S_RGB24, S_bgr24} -> << 24, BI_RGB, align_to4(w * 3) * h >>
    [] format \in {S_RGB32, S_bgr32} -> << 32, BI_RGB, w * 4 * h >>
    [] format = S_BGRA -> << 32, FourCC(66, 71, 82, 65), w * 4 * h >>
    [] format = S_AYUV -> << 32, FourCC(65, 89, 85, 86), w * 4 * h >>
    [] format = S_YUY2 -> << 16, FourCC(89, 85, 89, 50), w * 2 * h >>
    [] format = S_UYVY -> << 16, FourCC(85, 89, 86, 89), w * 2 * h >>
    [] format = S_YV12 -> << 12, FourCC(89, 86, 49, 50), CDiv(w * h * 3, 2) >>
    [] format = S_YV24 -> << 24, FourCC(89, 86, 50, 52), w * h * 3 >>
    [] format = S_Y8 -> << 8, FourCC(89, 56, 32, 32), w * h >>
    [] format = S_b64a -> << 64, FourCC(98, 54, 52, 97), w * 8 * h >>
    [] format = S_b48r -> << 48, FourCC(98, 52, 56, 114), w * 6 * h >>
    [] format = S_v210 -> << 20, FourCC(118, 50, 49, 48), CDiv(w + 47, 48) * 128 * h >>
    [] format = S_r210 -> << 30, FourCC(114, 50, 49, 48), CDiv(w + 63, 64) * 256 * h >>
    [] OTHER -> NULL

\* [bitCount, compression, sizeImage] of a format name, or NULL
FormatRule(format, w, h) ==
  CASE format \in {S_RGB24, S_bgr24} -> << 24, BI_RGB, align_to4(w * 3) * Abs(h) >>
    [] format \in {S_RGB32, S_bgr32} -> << 32, BI_RGB, w * 4 * Abs(h) >>
    [] format = S_BGRA -> << 32, FourCC(66, 71, 82, 65), w * 4 * Abs(h) >>
    [] format = S_AYUV -> << 32, FourCC(65, 89, 85, 86), w * 4 * Abs(h) >>
    [] format = S_YUY2 -> << 16, FourCC(89, 85, 89, 50), w * 2 * Abs(h) >>
    [] format = S_UYVY -> << 16, FourCC(85, 89, 86, 89), w * 2 * Abs(h) >>
    [] format = S_YV12 -> << 12, FourCC(89, 86, 49, 50), CDiv(w * Abs(h) * 3, 2) >>
    [] format = S_YV24 -> << 24, FourCC(89, 86, 50, 52), w * Abs(h) * 3 >>
    [] format = S_Y8 -> << 8, FourCC(89, 56, 32, 32), w * Abs(h) >>
    [] format = S_b64a -> << 64, FourCC(98, 54, 52, 97), w * 8 * Abs(h) >>
    [] format = S_b48r -> << 48, FourCC(98, 52, 56, 114), w * 6 * Abs(h) >>
    [] format = S_v210 -> << 20, FourCC(118, 50, 49, 48), CDiv(w + 47, 48) * 128 * Abs(h) >>
    [] format = S_r210 -> << 30, FourCC(114, 50, 49, 48), CDiv(w + 63, 64) * 256 * Abs(h) >>
    [] OTHER -> NULL

\* [ok |-> FALSE] when the function throws, else the header it fills in
GetDecompFormat(format, width, height) ==
  LET r == FormatRule(format, width, height)
  IN  IF r = NULL THEN [ok |-> FALSE, bih |-> << >>]
      ELSE [ok |-> TRUE,
            bih |-> MakeBIH(SizeofBITMAPINFOHEADER, width, height, r[1], r[2], r[3], << >>)]

(***************************************************************************)
(* ArgvParser.  argv holds the arguments after the program's name, so      *)
(* argc = Len(argv) + 1.                                                   *)
(***************************************************************************)
O_i == << "-", "i" >>
O_o == << "-", "o" >>
O_nd == << "-", "n", "d" >>
O_nc == << "-", "n", "c" >>
O_rawin == << "-", "r", "a", "w", "i", "n" >>
O_rawout == << "-", "r", "a", "w", "o", "u", "t" >>
O_f == << "-", "f" >>
O_w == << "-", "w" >>
O_h == << "-", "h" >>
O_frames == << "-", "f", "r", "a", "m", "e", "s" >>
O_loop == << "-", "l", "o", "o", "p" >>

\* argv[i][0] == '-'
StartsWithDash(tok) == Len(tok) > 0 /\ tok[1] = "-"

\* the constructor's loop from argument i on: [argmap, arglist]
RECURSIVE ArgvParserLoop(_, _, _, _, _)
ArgvParserLoop(args, i, lastarg, argmap, arglist) ==
  IF i > Len(args) THEN [argmap |-> argmap, arglist |-> arglist]
  ELSE IF StartsWithDash(args[i])
  THEN ArgvParserLoop(args, i + 1, args[i],
         [k \in DOMAIN argmap \cup {args[i]} |-> IF k = args[i] THEN NULL ELSE argmap[k]],
         arglist)
  ELSE IF lastarg # NULL
  THEN ArgvParserLoop(args, i + 1, NULL,
         [k \in DOMAIN argmap \cup {lastarg} |-> IF k = lastarg THEN args[i] ELSE argmap[k]],
         arglist)
  ELSE ArgvParserLoop(args, i + 1, NULL, argmap, Append(arglist, args[i]))

ArgvParser(args) == ArgvParserLoop(args, 1, NULL, [k \in {} |-> NULL], << >>)

\* hasArg(arg) with allowParam = false: "throw", TRUE or FALSE
hasArg(parser, arg) ==
  IF arg \notin DOMAIN parser.argmap THEN "false"
  ELSE IF parser.argmap[arg] # NULL THEN "throw"
  ELSE "true"

\* getArg(arg, defVal): << "throw" >> or the value
Thrown == << "throw" >>

\* getArg giving the default for an option that has no value
getArg_lenient(parser, arg, defVal) ==
  IF arg \notin DOMAIN parser.argmap \/ parser.argmap[arg] = NULL THEN defVal
  ELSE parser.argmap[arg]

getArg(parser, arg, defVal) ==
  IF arg \notin DOMAIN parser.argmap THEN defVal
  ELSE IF parser.argmap[arg] = NULL THEN Thrown
  ELSE parser.argmap[arg]

(***************************************************************************)
(* atoi: leading blanks, an optional sign, then digits up to the first     *)
(* character that is not one.                                              *)
(***************************************************************************)
Digits == << "0", "1", "2", "3", "4", "5", "6", "7", "8", "9" >>
IsDigit(c) == \E d \in 1..10 : Digits[d] = c
DigitVal(c) == (CHOOSE d \in 1..10 : Digits[d] = c) - 1

RECURSIVE SkipBlanks(_)
SkipBlanks(str) == IF str # << >> /\ Head(str) = " " THEN SkipBlanks(Tail(str)) ELSE str

RECURSIVE AtoiDigits(_, _)
AtoiDigits(str, acc) ==
  IF str = << >> \/ ~IsDigit(Head(str)) THEN acc
  ELSE AtoiDigits(Tail(str), acc * 10 + DigitVal(Head(str)))

atoi(str) ==
  LET t == SkipBlanks(str)
  IN  IF t = << >> THEN 0
      ELSE IF Head(t) = "-" THEN -AtoiDigits(Tail(t), 0)
      ELSE IF Head(t) = "+" THEN AtoiDigits(Tail(t), 0)
      ELSE AtoiDigits(t, 0)

(***************************************************************************)
(* CodecBench::initArguments: [ok, msg, cb], cb the members it assigns.    *)
(***************************************************************************)
S_0 == << "0" >>
S_1 == << "1" >>

NoConfig ==
  [m_rawin |-> FALSE, m_rawout |-> FALSE, m_decompress |-> FALSE, m_compress |-> FALSE,
   m_infile |-> NULL, m_outfile |-> NULL, m_decompFormat |-> NULL,
   m_decompWidth |-> 0, m_decompHeight |-> 0, m_framesToProcess |-> 0, m_loopCount |-> 0]

\* initArguments with -nd and -nc alone deciding the stages
initArguments_unforced(args) ==
  LET parser == ArgvParser(args)
      rawin == hasArg(parser, O_rawin)
      rawout == hasArg(parser, O_rawout)
      nd == hasArg(parser, O_nd)
      nc == hasArg(parser, O_nc)
      format == getArg(parser, O_f, NULL)
      width == getArg(parser, O_w, S_0)
      height == getArg(parser, O_h, S_0)
      frames == getArg(parser, O_frames, S_0)
      loop == getArg(parser, O_loop, S_1)
      infile == getArg(parser, O_i, NULL)
      outfile == getArg(parser, O_o, NULL)
      m_rawin == rawin = "true"
      m_decompress == nd = "false"
      \* non-raw no-decompress: the format is taken from the file
      ignore == ~m_rawin /\ ~m_decompress
      fail(msg) == [ok |-> FALSE, msg |-> msg, cb |-> NoConfig]
  IN  IF Len(args) + 1 < 2 THEN fail("usage")
      ELSE IF "throw" \in {rawin, rawout, nd, nc} THEN fail("does not accept arguments")
      ELSE IF Thrown \in {format, width, height, frames, loop, infile, outfile}
      THEN fail("Missing argument for option")
      ELSE IF infile = NULL THEN fail("No input file given (-i)")
      ELSE IF m_rawin /\ (format = NULL \/ atoi(width) = 0 \/ atoi(height) = 0)
      THEN fail("-f, -w, -h must be given for raw inputs")
      ELSE [ok |-> TRUE, msg |-> "none",
            cb |-> [m_rawin |-> m_rawin,
                    m_rawout |-> rawout = "true",
                    m_decompress |-> m_decompress,
                    m_compress |-> nc = "false",
                    m_infile |-> infile,
                    m_outfile |-> outfile,
                    m_decompFormat |-> IF ignore THEN NULL ELSE format,
                    m_decompWidth |-> IF ignore THEN 0 ELSE atoi(width),
                    m_decompHeight |-> IF ignore THEN 0 ELSE atoi(height),
                    m_framesToProcess |-> atoi(frames),
                    m_loopCount |-> atoi(loop)]]

initArguments(args) ==
  LET parser == ArgvParser(args)
      rawin == hasArg(parser, O_rawin)
      rawout == hasArg(parser, O_rawout)
      nd == IF rawin = "true" THEN "false" ELSE hasArg(parser, O_nd)
      nc == IF rawout = "true" THEN "false" ELSE hasArg(parser, O_nc)
      format == getArg(parser, O_f, NULL)
      width == getArg(parser, O_w, S_0)
      height == getArg(parser, O_h, S_0)
      frames == getArg(parser, O_frames, S_0)
      loop == getArg(parser, O_loop, S_1)
      infile == getArg(parser, O_i, NULL)
      outfile == getArg(parser, O_o, NULL)
      m_rawin == rawin = "true"
      m_decompress == IF m_rawin THEN FALSE ELSE nd = "false"
      \* non-raw no-decompress: the format is taken from the file
      ignore == ~m_rawin /\ ~m_decompress
      fail(msg) == [ok |-> FALSE, msg |-> msg, cb |-> NoConfig]
  IN  IF Len(args) + 1 < 2 THEN fail("usage")
      ELSE IF "throw" \in {rawin, rawout, nd, nc} THEN fail("does not accept arguments")
      ELSE IF Thrown \in {format, width, height, frames, loop, infile, outfile}
      THEN fail("Missing argument for option")
      ELSE IF infile = NULL THEN fail("No input file given (-i)")
      ELSE IF m_rawin /\ (format = NULL \/ atoi(width) = 0 \/ atoi(height) = 0)
      THEN fail("-f, -w, -h must be given for raw inputs")
      ELSE [ok |-> TRUE, msg |-> "none",
            cb |-> [m_rawin |-> m_rawin,
                    m_rawout |-> rawout = "true",
                    m_decompress |-> m_decompress,
                    m_compress |-> IF rawout = "true" THEN FALSE ELSE nc = "false",
                    m_infile |-> infile,
                    m_outfile |-> outfile,
                    m_decompFormat |-> IF ignore THEN NULL ELSE format,
                    m_decompWidth |-> IF ignore THEN 0 ELSE atoi(width),
                    m_decompHeight |-> IF ignore THEN 0 ELSE atoi(height),
                    m_framesToProcess |-> atoi(frames),
                    m_loopCount |-> atoi(loop)]]

(***************************************************************************)
(* State.                                                                  *)
(***************************************************************************)
VARIABLES
  \* the environment: the command line, the file system, the installed codecs
  argv, inFileExists, inFileBytes, outCreatable, codec,
  \* VideoReader
  m_frameBuf, m_frameSize, m_inFile, m_biFormat, m_headerSize, m_rawR, rf_ret,
  \* VideoWriter
  m_outFile, m_rawW,
  \* how the last call ended: "none", the message of the exception thrown,
  \* or "crash" (an access past the end of a buffer that faults)
  exc,
  \* the history the container harness keeps of its calls
  h,
  \* CodecBench: the members initArguments sets, the Decompressor, the
  \* Compressor, the two negotiated descriptors, the locals of run()
  cb, dec, comp, m_formatDecompressed, m_formatCompressed, run,
  \* CodecBench::s_stop, where main() stands, and the value main() returned
  \* (-1 while it has not)
  s_stop, pc, exitCode,
  \* history of the run
  gh

envVars == << argv, inFileExists, inFileBytes, outCreatable, codec >>
readerVars == << m_frameBuf, m_frameSize, m_inFile, m_biFormat, m_headerSize, m_rawR, rf_ret >>
writerVars == << m_outFile, m_rawW >>
mainVars ==
  << cb, dec, comp, m_formatDecompressed, m_formatCompressed, run, s_stop, pc, exitCode, gh >>
vars == << envVars, readerVars, writerVars, exc, h, mainVars >>

\* a null BITMAPINFOHEADER*
NULLPTR == [size |-> -1, data |-> << >>]

(***************************************************************************)
(* std::ifstream: [open, pos, eof, fail] over the bytes of the input file. *)
(***************************************************************************)
IstreamClosed == [open |-> FALSE, pos |-> 0, eof |-> FALSE, fail |-> FALSE]

\* ifstream::open
IstreamOpen(exists) == [open |-> exists, pos |-> 0, eof |-> FALSE, fail |-> ~exists]

\* istream::read(buf, n): nothing is read from a stream that is not good();
\* a short read stores what there is and sets eofbit and failbit
IstreamRead(s, bytes, n) ==
  IF s.eof \/ s.fail
  THEN [s |-> [s EXCEPT !.fail = TRUE], data |-> << >>]
  ELSE LET avail == IF IsHuge(s.pos) THEN 0 ELSE Max(0, Len(bytes) - s.pos)
           k == IF IsHuge(n) THEN avail ELSE Min(n, avail)
           short == IsHuge(n) \/ k < n
       IN  [s |-> [s EXCEPT !.pos = IF k = 0 THEN @ ELSE @ + k, !.eof = short, !.fail = short],
            data |-> IF k = 0 THEN << >> ELSE SubSeq(bytes, s.pos + 1, s.pos + k)]

\* ios::clear()
IstreamClear(s) == [s EXCEPT !.eof = FALSE, !.fail = FALSE]

\* istream::seekg(off, beg): does nothing on a failed stream
IstreamSeekg(s, off) == IF s.fail THEN s ELSE [s EXCEPT !.pos = off, !.eof = FALSE]

\* the four bytes of a uint32_t read by readVar: the bytes the stream gave,
\* the rest of the uninitialised variable being garbage
VarBytes(data, g) == [i \in 1..4 |-> IF i <= Len(data) THEN data[i] ELSE g]

\* readVar<uint32_t>
readVar(s, bytes, g) ==
  LET r == IstreamRead(s, bytes, 4)
  IN  [s |-> r.s, var |-> LE32(VarBytes(r.data, g))]

(***************************************************************************)
(* VideoReader                                                             *)
(***************************************************************************)
ReaderUntouched == UNCHANGED << m_frameBuf, m_frameSize, rf_ret >>

VideoReader_openRaw(format, width, height) ==
  LET f == GetDecompFormat(format, width, height)
      s == IstreamOpen(inFileExists)
  IN  /\ m_biFormat' = Vec(SizeofBITMAPINFOHEADER, f.bih)
      /\ ReaderUntouched
      /\ IF ~f.ok
         THEN /\ exc' = "Invalid requested decompressed format"
              /\ UNCHANGED << m_inFile, m_rawR, m_headerSize >>
         ELSE /\ m_inFile' = s
              /\ IF s.fail
                 THEN exc' = "Failed to open file" /\ UNCHANGED << m_rawR, m_headerSize >>
                 ELSE exc' = "none" /\ m_rawR' = TRUE /\ m_headerSize' = 0

\* open that takes any first word for the magic
VideoReader_open_anyMagic(g) ==
  LET s == IstreamOpen(inFileExists)
      magic == readVar(s, inFileBytes, g)
      formatSize == readVar(magic.s, inFileBytes, g)
      block == IstreamRead(formatSize.s, inFileBytes, formatSize.var)
  IN  /\ ReaderUntouched
      /\ IF s.fail
         THEN /\ exc' = "Failed to open file"
              /\ m_inFile' = s
              /\ UNCHANGED << m_rawR, m_biFormat, m_headerSize >>
         ELSE /\ m_rawR' = FALSE
              /\ IF FALSE
                 THEN /\ exc' = "Invalid file magic"
                      /\ m_inFile' = magic.s
                      /\ UNCHANGED << m_biFormat, m_headerSize >>
                 ELSE /\ exc' = "none"
                      /\ m_biFormat' = VecStore(VecResize(m_biFormat, formatSize.var), block.data)
                      /\ m_inFile' = block.s
                      /\ m_headerSize' = AddWord(8, formatSize.var)

VideoReader_open(g) ==
  LET s == IstreamOpen(inFileExists)
      magic == readVar(s, inFileBytes, g)
      formatSize == readVar(magic.s, inFileBytes, g)
      block == IstreamRead(formatSize.s, inFileBytes, formatSize.var)
  IN  /\ ReaderUntouched
      /\ IF s.fail
         THEN /\ exc' = "Failed to open file"
              /\ m_inFile' = s
              /\ UNCHANGED << m_rawR, m_biFormat, m_headerSize >>
         ELSE /\ m_rawR' = FALSE
              /\ IF magic.var # Magic
                 THEN /\ exc' = "Invalid file magic"
                      /\ m_inFile' = magic.s
                      /\ UNCHANGED << m_biFormat, m_headerSize >>
                 ELSE /\ exc' = "none"
                      /\ m_biFormat' = VecStore(VecResize(m_biFormat, formatSize.var), block.data)
                      /\ m_inFile' = block.s
                      /\ m_headerSize' = AddWord(8, formatSize.var)

\* readFrame that answers by the length prefix alone, not by the frame's bytes
VideoReader_readFrame_prefixOnly(g) ==
  IF m_inFile.eof
  THEN /\ rf_ret' = FALSE
       /\ UNCHANGED << m_frameBuf, m_frameSize, m_inFile, m_biFormat, m_headerSize, m_rawR >>
  ELSE LET len == readVar(m_inFile, inFileBytes, g)
           size == IF m_rawR THEN biSizeImage(m_biFormat, g) ELSE len.var
           s1 == IF m_rawR THEN m_inFile ELSE len.s
           body == IstreamRead(s1, inFileBytes, size)
           buf == IF ULess(m_frameBuf.size, size) THEN VecResize(m_frameBuf, size) ELSE m_frameBuf
       IN  /\ m_frameSize' = size
           /\ m_frameBuf' = VecStore(buf, body.data)
           /\ m_inFile' = body.s
           /\ rf_ret' = ~s1.fail
           /\ UNCHANGED << m_biFormat, m_headerSize, m_rawR >>

\* readFrame that reads a length prefix in raw mode too
VideoReader_readFrame_rawPrefix(g) ==
  IF m_inFile.eof
  THEN /\ rf_ret' = FALSE
       /\ UNCHANGED << m_frameBuf, m_frameSize, m_inFile, m_biFormat, m_headerSize, m_rawR >>
  ELSE LET len == readVar(m_inFile, inFileBytes, g)
           size == IF m_rawR THEN biSizeImage(m_biFormat, g) ELSE len.var
           body == IstreamRead(len.s, inFileBytes, size)
           buf == IF ULess(m_frameBuf.size, size) THEN VecResize(m_frameBuf, size) ELSE m_frameBuf
       IN  /\ m_frameSize' = size
           /\ m_frameBuf' = VecStore(buf, body.data)
           /\ m_inFile' = body.s
           /\ rf_ret' = ~body.s.fail
           /\ UNCHANGED << m_biFormat, m_headerSize, m_rawR >>

VideoReader_readFrame(g) ==
  IF m_inFile.eof
  THEN /\ rf_ret' = FALSE
       /\ UNCHANGED << m_frameBuf, m_frameSize, m_inFile, m_biFormat, m_headerSize, m_rawR >>
  ELSE LET len == readVar(m_inFile, inFileBytes, g)
           size == IF m_rawR THEN biSizeImage(m_biFormat, g) ELSE len.var
           s1 == IF m_rawR THEN m_inFile ELSE len.s
           body == IstreamRead(s1, inFileBytes, size)
           buf == IF ULess(m_frameBuf.size, size) THEN VecResize(m_frameBuf, size) ELSE m_frameBuf
       IN  /\ m_frameSize' = size
           /\ m_frameBuf' = VecStore(buf, body.data)
           /\ m_inFile' = body.s
           /\ rf_ret' = ~body.s.fail
           /\ UNCHANGED << m_biFormat, m_headerSize, m_rawR >>

\* rewind without the clear() of the stream's state
VideoReader_rewind_noClear ==
  /\ m_inFile' = IstreamSeekg(m_inFile, m_headerSize)
  /\ UNCHANGED << m_frameBuf, m_frameSize, m_biFormat, m_headerSize, m_rawR, rf_ret >>

VideoReader_rewind ==
  /\ m_inFile' = IstreamSeekg(IstreamClear(m_inFile), m_headerSize)
  /\ UNCHANGED << m_frameBuf, m_frameSize, m_biFormat, m_headerSize, m_rawR, rf_ret >>

\* frameData() with frameSize(): the frame the last readFrame returned
frameData == VecBytes(m_frameBuf, m_frameSize, 0)

(***************************************************************************)
(* VideoWriter                                                             *)
(***************************************************************************)
\* most bytes past the end of a buffer a read is followed through; a longer
\* overrun is taken to fault
MaxOverrun == 4

\* reading n bytes at a pointer into v: undefined when n > v.size
Overruns(v, n) == ULess(v.size, n)

OfstreamClosed == [open |-> FALSE, bytes |-> << >>]

\* c: whether an access past the end of *biFormat faults
VideoWriter_open(biFormat, g, c) ==
  IF ~outCreatable
  THEN /\ exc' = "Failed to open file"
       /\ UNCHANGED << m_outFile, m_rawW >>
  ELSE IF biFormat = NULLPTR
  THEN /\ exc' = "none"
       /\ m_rawW' = TRUE
       /\ m_outFile' = [open |-> TRUE, bytes |-> << >>]
  ELSE LET n == biSize(biFormat, g)
       IN  /\ m_rawW' = FALSE
           /\ IF Overruns(biFormat, n) /\ (c \/ IsHuge(n) \/ n - biFormat.size > MaxOverrun)
              THEN /\ exc' = "crash"
                   /\ m_outFile' = [open |-> TRUE, bytes |-> ToLE32(Magic)]
              ELSE /\ exc' = "none"
                   /\ m_outFile' = [open |-> TRUE,
                                    bytes |-> ToLE32(Magic) \o ToLE32(n) \o VecBytes(biFormat, n, g)]

\* writeFrame with the test of m_raw inverted
VideoWriter_writeFrame_inverted(data, frameSize) ==
  /\ m_outFile' = [m_outFile EXCEPT !.bytes =
                     @ \o (IF m_rawW THEN ToLE32(frameSize) ELSE << >>) \o Take(data, frameSize)]
  /\ UNCHANGED m_rawW

\* writeFrame that leaves the last byte of the frame unwritten
VideoWriter_writeFrame_cut(data, frameSize) ==
  /\ m_outFile' = [m_outFile EXCEPT !.bytes =
                     @ \o (IF ~m_rawW THEN ToLE32(frameSize) ELSE << >>)
                       \o Take(data, Max(0, frameSize - 1))]
  /\ UNCHANGED m_rawW

VideoWriter_writeFrame(data, frameSize) ==
  /\ m_outFile' = [m_outFile EXCEPT !.bytes =
                     @ \o (IF ~m_rawW THEN ToLE32(frameSize) ELSE << >>) \o Take(data, frameSize)]
  /\ UNCHANGED m_rawW

(***************************************************************************)
(* Files.                                                                  *)
(***************************************************************************)
RECURSIVE FrameRecords(_)
FrameRecords(frames) ==
  IF frames = << >> THEN << >>
  ELSE ToLE32(Len(Head(frames))) \o Head(frames) \o FrameRecords(Tail(frames))

\* a container stream: magic, format block size, format block, frame records
ContainerFile(block, frames) ==
  ToLE32(Magic) \o ToLE32(Len(block)) \o block \o FrameRecords(frames)

Prefixes(f) == {SubSeq(f, 1, n) : n \in 0..Len(f)}

BIH_RGB24_4x2 == MakeBIH(40, 4, 2, 24, BI_RGB, 24, << >>)
BIH_Y8_ext == MakeBIH(44, 1, 1, 8, FourCC(89, 56, 32, 32), 1, << 1, 2, 3, 4 >>)

\* three frames, the second one empty
BaseFile == ContainerFile(BIH_RGB24_4x2, << << 7, 8 >>, << >>, << 9 >> >>)

\* a 40-byte format block declaring biSizeImage = 100 and one frame that
\* declares 100 bytes of which 50 are there
TruncatedScenarioFile ==
  ToLE32(Magic) \o ToLE32(40) \o MakeBIH(40, 5, 5, 32, BI_RGB, 100, << >>)
    \o ToLE32(100) \o [i \in 1..50 |-> i]

RawFile(n) == [i \in 1..n |-> (i * 7) % 256]
RawLens == {0, 3, 9, 23, 24, 47, 48, 50}
RawFiles == {RawFile(n) : n \in RawLens}

ForeignFile == ToLE32(Magic - 1) \o ToLE32(40) \o BIH_RGB24_4x2

HarnessFiles ==
  Prefixes(BaseFile) \cup {TruncatedScenarioFile, ForeignFile}
    \cup RawFiles

(***************************************************************************)
(* The container harness: a VideoWriter writes a stream, or a file lies on *)
(* the disk; a VideoReader opens it and is then asked for frames and       *)
(* rewound in any order.                                                   *)
(***************************************************************************)
FrameBase == {0, 250}
HarnessFrames == {[i \in 1..n |-> b + i] : n \in 0..MaxFrameLen, b \in FrameBase}
HarnessDescriptors == {Vec(40, BIH_RGB24_4x2), Vec(44, BIH_Y8_ext)}
\* format name, width, height: frames of 24, 4, 3, 1 and 128 bytes, and a
\* name GetDecompFormat does not know
RawGeometries ==
  { << S_RGB24, 4, 2 >>, << S_Y8, 2, -2 >>, << S_YV12, 2, 1 >>, << S_Y8, 1, 1 >>,
    << S_v210, 1, 1 >>, << << "x" >>, 1, 1 >> }

NoFrame == [done |-> FALSE, ret |-> FALSE, size |-> 0, data |-> << >>]

HInit(mode) ==
  [mode |-> mode, phase |-> IF mode = "file" THEN "idle" ELSE "start",
   desc |-> NULLPTR, written |-> << >>, op |-> "none", pre |-> IstreamClosed,
   reads |-> 0, first |-> NoFrame, eos |-> FALSE, eosBeforeRewind |-> FALSE,
   afterEosRewind |-> FALSE, eosBefore |-> FALSE, fmtAtOpen |-> NULLPTR,
   geo |-> << >>]

(***************************************************************************)
(* CodecBench as constructed.                                              *)
(***************************************************************************)
DecompressorNew ==
  [m_hic |-> FALSE, m_decompressing |-> FALSE, m_frameBuf |-> Vec(0, << >>),
   m_biFormatIn |-> Vec(SizeofBITMAPINFOHEADER, << >>),
   m_biFormatOut |-> Vec(SizeofBITMAPINFOHEADER, << >>)]

\* m_frameData points into a buffer of the codec; lpbiIn is m_compvars.lpbiIn
CompressorNew ==
  [hic |-> FALSE, m_compressing |-> FALSE, lpbiIn |-> NULLPTR,
   m_frameData |-> Vec(0, << >>), m_frameSize |-> 0,
   m_biFormatOut |-> Vec(SizeofBITMAPINFOHEADER, << >>)]

\* currData is "reader", "decompressor" or "compressor": the buffer it points into
RunLocals ==
  [numFrames |-> 0, currentFrameNum |-> 0, sumInputSize |-> 0, sumOutputSize |-> 0,
   sumRawSize |-> 0, loop |-> 0, decompSamples |-> 0, compSamples |-> 0,
   currData |-> "none", currDataSize |-> 0]

Totals(r) ==
  [numFrames |-> r.numFrames, sumInputSize |-> r.sumInputSize,
   sumRawSize |-> r.sumRawSize, sumOutputSize |-> r.sumOutputSize]
NoTotals == [numFrames |-> -1, sumInputSize |-> -1, sumRawSize |-> -1, sumOutputSize |-> -1]
NoData == [size |-> -1, bytes |-> << >>]

\* argsOk: initArguments returned; inTried, outTried: the stream's open() was
\* called; decTried, encTried: ICLocate, ICCompressorChoose was called;
\* encNone: Compressor::init returned false; observed: the loop condition
\* read s_stop as true; touched: the frames (by their number) a stage of
\* which ran after s_stop was set; loop1: the totals when the first loop
\* ended; decOut: what the decode stage left as the current frame; wrote:
\* what the last writeFrame was given; nWritten: calls of writeFrame;
\* atObserve: the totals when s_stop was observed; frames: the frames
\* writeFrame was given, in the order of the calls; order: the frame count
\* at each of these calls
HistoryNew ==
  [argsOk |-> FALSE, inTried |-> FALSE, outTried |-> FALSE, decTried |-> FALSE,
   encTried |-> FALSE, encNone |-> FALSE, observed |-> FALSE, touched |-> {},
   loop1 |-> NoTotals, decOut |-> NoData, wrote |-> NoData, nWritten |-> 0,
   atObserve |-> NoTotals, frames |-> << >>, order |-> << >>]

NoCodec == [dec |-> "ok", enc |-> "ok"]

InitCodecBench ==
  /\ cb = NoConfig
  /\ dec = DecompressorNew
  /\ comp = CompressorNew
  /\ m_formatDecompressed = Vec(SizeofBITMAPINFOHEADER, << >>)
  /\ m_formatCompressed = Vec(SizeofBITMAPINFOHEADER, << >>)
  /\ run = RunLocals
  /\ s_stop = FALSE
  /\ pc = "start"
  /\ exitCode = -1
  /\ gh = HistoryNew

InitReaderWriter ==
  /\ m_frameBuf = Vec(0, << >>)
  /\ m_frameSize = 0
  /\ m_inFile = IstreamClosed
  /\ m_biFormat = Vec(SizeofBITMAPINFOHEADER, << >>)
  /\ m_headerSize = 0
  /\ m_rawR = FALSE
  /\ rf_ret = FALSE
  /\ m_outFile = OfstreamClosed
  /\ m_rawW = FALSE
  /\ exc = "none"

InitRW ==
  /\ argv = << >>
  /\ codec = NoCodec
  /\ InitCodecBench
  /\ outCreatable = TRUE
  /\ \/ /\ h = HInit("file")
        /\ inFileExists = TRUE
        /\ inFileBytes \in HarnessFiles
     \/ /\ h = HInit("roundtrip")
        /\ inFileExists = FALSE
        /\ inFileBytes = << >>
  /\ InitReaderWriter

H_WriterOpen ==
  /\ h.phase = "start"
  /\ \E d \in HarnessDescriptors \cup {NULLPTR} :
       /\ VideoWriter_open(d, 0, FALSE)
       /\ h' = [h EXCEPT !.phase = "writing", !.desc = d, !.op = "writerOpen"]
  /\ UNCHANGED << envVars, readerVars >>
  /\ UNCHANGED mainVars

H_WriteFrame ==
  /\ h.phase = "writing"
  /\ Len(h.written) < MaxFrames
  /\ \E f \in HarnessFrames :
       /\ VideoWriter_writeFrame(f, Len(f))
       /\ h' = [h EXCEPT !.written = Append(@, f), !.op = "writeFrame"]
  /\ UNCHANGED << envVars, readerVars, exc >>
  /\ UNCHANGED mainVars

\* the writer's stream is closed and its bytes are the file on the disk
H_Close ==
  /\ h.phase = "writing"
  /\ inFileBytes' = m_outFile.bytes
  /\ inFileExists' = TRUE
  /\ m_outFile' = [m_outFile EXCEPT !.open = FALSE]
  /\ h' = [h EXCEPT !.phase = "idle", !.op = "close"]
  /\ UNCHANGED << argv, outCreatable, codec, readerVars, m_rawW, exc >>
  /\ UNCHANGED mainVars

HAfterOpen(name) ==
  h' = [h EXCEPT !.phase = IF exc' = "none" THEN "reading" ELSE "failed",
                 !.op = name, !.pre = m_inFile, !.fmtAtOpen = m_biFormat']

H_Open ==
  /\ h.phase = "idle"
  /\ \E g \in GarbageByte : VideoReader_open(g)
  /\ HAfterOpen("open")
  /\ UNCHANGED << envVars, writerVars >>
  /\ UNCHANGED mainVars

H_OpenRaw ==
  /\ h.phase = "idle"
  /\ inFileBytes \in RawFiles \/ (h.mode = "roundtrip" /\ h.desc = NULLPTR)
  /\ \E geo \in RawGeometries :
       /\ geo[1] = S_Y8 /\ geo[2] = 1 => Len(inFileBytes) <= 9
       /\ VideoReader_openRaw(geo[1], geo[2], geo[3])
       /\ h' = [h EXCEPT !.phase = IF exc' = "none" THEN "reading" ELSE "failed",
                          !.op = "openRaw", !.pre = m_inFile, !.fmtAtOpen = m_biFormat',
                          !.geo = geo]
  /\ UNCHANGED << envVars, writerVars >>
  /\ UNCHANGED mainVars

H_ReadFrame ==
  /\ h.phase = "reading"
  /\ \E g \in GarbageByte : VideoReader_readFrame(g)
  /\ h' = [h EXCEPT
             !.op = "readFrame",
             !.pre = m_inFile,
             !.reads = IF rf_ret' THEN @ + 1 ELSE @,
             !.eos = @ \/ ~rf_ret',
             !.eosBefore = h.eos,
             !.afterEosRewind = (h.op = "rewind" /\ h.eosBeforeRewind),
             !.first = IF h.first.done THEN @
                       ELSE [done |-> TRUE, ret |-> rf_ret',
                             size |-> IF rf_ret' THEN m_frameSize' ELSE 0,
                             data |-> IF rf_ret'
                                      THEN VecBytes(m_frameBuf', m_frameSize', 0)
                                      ELSE << >>]]
  /\ UNCHANGED << envVars, writerVars, exc >>
  /\ UNCHANGED mainVars

H_Rewind ==
  /\ h.phase = "reading"
  /\ VideoReader_rewind
  /\ h' = [h EXCEPT !.op = "rewind", !.pre = m_inFile, !.reads = 0, !.eos = FALSE,
                    !.eosBeforeRewind = h.eos \/ (h.op = "rewind" /\ h.eosBeforeRewind)]
  /\ UNCHANGED << envVars, writerVars, exc >>
  /\ UNCHANGED mainVars

NextRW ==
  \/ H_WriterOpen
  \/ H_WriteFrame
  \/ H_Close
  \/ H_Open
  \/ H_OpenRaw
  \/ H_ReadFrame
  \/ H_Rewind

SpecRW == InitRW /\ [][NextRW]_vars

(***************************************************************************)
(* Claims about the container, checked under SpecRW.                       *)
(***************************************************************************)
RoundTrip == h.mode = "roundtrip" /\ h.desc # NULLPTR /\ h.phase \in {"reading", "failed"}

\* C2: a stream written by VideoWriter::open(D) and writeFrame for N frames
\* is opened by VideoReader::open without error, gives a format block whose
\* bytes are D's, gives by readFrame the same frames in the same order with
\* the same sizes and bytes, and reports end-of-stream after the N-th frame.
C2_ContainerRoundTrip ==
  RoundTrip =>
    /\ h.phase = "reading"
    /\ m_biFormat.size = h.desc.size
    /\ VecBytes(m_biFormat, m_biFormat.size, 0) = VecBytes(h.desc, h.desc.size, 0)
    /\ h.op = "readFrame" /\ rf_ret =>
         /\ h.reads <= Len(h.written)
         /\ m_frameSize = Len(h.written[h.reads])
         /\ frameData = h.written[h.reads]
    /\ h.op = "readFrame" /\ ~rf_ret => h.reads = Len(h.written)

C2_Witness ==
  /\ RoundTrip
  /\ h.op = "readFrame" /\ ~rf_ret
  /\ Len(h.written) = 2 /\ h.reads = 2
  /\ Len(h.written[1]) # Len(h.written[2])
  /\ h.desc.size = 44

\* C3 as stated: in container and in raw mode, whatever the stream holds,
\* the readFrame that follows a rewind called after end-of-stream succeeds
\* and returns the size and bytes of the first readFrame after open.
C3_Original ==
  h.phase = "reading" /\ h.op = "readFrame" /\ h.afterEosRewind =>
    /\ rf_ret
    /\ h.first.ret
    /\ m_frameSize = h.first.size
    /\ frameData = h.first.data

\* C3 amended: in container and in raw mode, when the first readFrame after
\* open returned a frame: the rewind offset is 8 + the format block size
\* (container) or 0 (raw); the format block stays what open left; rewind puts
\* the stream there in a good state; and the readFrame that follows a rewind
\* called after end-of-stream returns that first frame again (size and
\* bytes), also when the stream ended in a truncated frame.
C3_Rewind ==
  h.phase = "reading" /\ h.first.ret =>
    /\ m_headerSize = IF m_rawR THEN 0 ELSE 8 + LE32(SubSeq(inFileBytes, 5, 8))
    /\ m_biFormat = h.fmtAtOpen
    /\ h.op = "rewind" =>
         m_inFile.pos = m_headerSize /\ ~m_inFile.eof /\ ~m_inFile.fail
    /\ h.op = "readFrame" /\ h.afterEosRewind =>
         /\ rf_ret
         /\ m_frameSize = h.first.size
         /\ frameData = h.first.data

C3_Witness ==
  /\ h.phase = "reading" /\ h.first.ret
  /\ h.op = "readFrame" /\ h.afterEosRewind /\ rf_ret
  /\ inFileBytes = SubSeq(BaseFile, 1, Len(BaseFile) - 1)
  /\ m_frameSize = 2

\* no complete frame record starts at offset pos of a container stream
NoCompleteFrameAt(bytes, pos) ==
  \/ IsHuge(pos)
  \/ Len(bytes) - pos < 4
  \/ LET declared == LE32(SubSeq(bytes, pos + 1, pos + 4))
     IN  IsHuge(declared) \/ declared > Len(bytes) - pos - 4

C5_RawFraming ==
  LET S == biSizeImage(m_biFormat, 0)
      N == Len(inFileBytes) \div S
  IN  h.phase = "reading" /\ m_rawR /\ S > 0 =>
        /\ h.geo = << S_RGB24, 4, 2 >> => S = 24
        /\ h.op = "readFrame" /\ rf_ret =>
             /\ h.reads <= N
             /\ m_frameSize = S
             /\ frameData = SubSeq(inFileBytes, (h.reads - 1) * S + 1, h.reads * S)
             /\ m_inFile.pos = h.reads * S
        /\ h.op = "readFrame" /\ ~rf_ret => h.reads = N

C5_Witness ==
  /\ h.phase = "reading" /\ m_rawR
  /\ h.geo = << S_RGB24, 4, 2 >>
  /\ Len(inFileBytes) = 48
  /\ h.op = "readFrame" /\ ~rf_ret /\ h.reads = 2


(***************************************************************************)
(* BitmapInfoHeader::operator= from a pointer bih: biSize bytes are       *)
(* copied from it.  g: what a read past the end of the source shows; c:    *)
(* whether such a read faults.                                             *)
(***************************************************************************)
\* operator= copying sizeof(BITMAPINFOHEADER) bytes whatever biSize says
BitmapInfoHeader_assign_fixed(bih, g, c) ==
  LET n == SizeofBITMAPINFOHEADER
      over == ULess(bih.size, 4) \/ Overruns(bih, n)
  IN  IF over /\ (c \/ IsHuge(n) \/ n - bih.size > MaxOverrun)
      THEN [crash |-> TRUE, v |-> NULLPTR]
      ELSE [crash |-> FALSE,
            v |-> IF over THEN Vec(n, VecBytes(bih, n, g)) ELSE Vec(n, Take(bih.data, n))]

BitmapInfoHeader_assign(bih, g, c) ==
  LET n == biSize(bih, g)
      over == ULess(bih.size, 4) \/ Overruns(bih, n)
  IN  IF over /\ (c \/ IsHuge(n) \/ n - bih.size > MaxOverrun)
      THEN [crash |-> TRUE, v |-> NULLPTR]
      ELSE [crash |-> FALSE,
            v |-> IF over THEN Vec(n, VecBytes(bih, n, g)) ELSE Vec(n, bih.data)]

(***************************************************************************)
(* The installed codecs.  codec.dec names the call of Decompressor::init   *)
(* that fails ("ok": none does); codec.enc is "cancel" (the selection is   *)
(* cancelled), "none" (no compressor is selected), "noStart" or "ok".  A   *)
(* codec's output is a function of the bytes it is given.                  *)
(***************************************************************************)
DecoderOutcomes ==
  {"ok", "noLocate", "noQueryFormat", "noFormatSize", "noGetFormat", "noQuerySize", "noBegin"}
EncoderOutcomes == {"ok", "cancel", "none", "noStart"}

RECURSIVE SumBytes(_)
SumBytes(b) == IF b = << >> THEN 0 ELSE Head(b) + SumBytes(Tail(b))

\* ICDecompress: n bytes of picture
DecodeFrame(data, n) == [i \in 1..n |-> (SumBytes(data) + 3 * i) % 256]
\* ICSeqCompressFrame: one or two bytes, by the content
EncodeFrame(data) ==
  << Len(data) % 256 >> \o (IF SumBytes(data) % 2 = 1 THEN << SumBytes(data) % 256 >> ELSE << >>)

\* ICDecompressGetFormat: RGB24 of the source's width and height
DecoderFormat(biFormatIn, g) ==
  LET w == biWidth(biFormatIn, g)
      hh == biHeight(biFormatIn, g)
  IN  Vec(SizeofBITMAPINFOHEADER,
          MakeBIH(SizeofBITMAPINFOHEADER, w, hh, 24, BI_RGB, align_to4(w * 3) * Abs(hh), << >>))

\* m_compvars.lpbiOut: a compressed format of the same geometry
EncoderFormat(biFormatIn, g) ==
  Vec(SizeofBITMAPINFOHEADER,
      MakeBIH(SizeofBITMAPINFOHEADER, biWidth(biFormatIn, g), biHeight(biFormatIn, g), 24,
              FourCC(77, 74, 80, 71), biSizeImage(biFormatIn, g), << >>))

(***************************************************************************)
(* Decompressor::init: [exc, dec]                                          *)
(***************************************************************************)
Decompressor_init(biFormatIn, biFormatOut, width, height, g, c) ==
  LET d0 == [dec EXCEPT !.m_decompressing = FALSE, !.m_hic = codec.dec # "noLocate"]
      asked == biFormatOut # NULLPTR
      out1 == IF asked THEN BitmapInfoHeader_assign(biFormatOut, g, c).v
              ELSE DecoderFormat(biFormatIn, g)
      outW == IF width # 0 THEN SetField(out1, 4, width) ELSE out1
      out2 == IF height # 0 THEN SetField(outW, 8, height) ELSE outW
      fin == BitmapInfoHeader_assign(biFormatIn, g, c)
      fail(msg, d) == [exc |-> msg, dec |-> d]
  IN  IF codec.dec = "noLocate"
      THEN fail("Could not find appropriate decompressor", d0)
      ELSE IF asked /\ codec.dec = "noQueryFormat"
      THEN fail("The decompressor cannot decompress to the requested format/size", d0)
      ELSE IF ~asked /\ codec.dec = "noFormatSize"
      THEN fail("ICDecompressGetFormatSize() failed", d0)
      ELSE IF ~asked /\ codec.dec = "noGetFormat"
      THEN fail("ICDecompressGetFormat() failed", d0)
      ELSE IF (width # 0 \/ height # 0) /\ codec.dec = "noQuerySize"
      THEN fail("The decompressor cannot decompress to the specified size",
                [d0 EXCEPT !.m_biFormatOut = out2])
      ELSE IF codec.dec = "noBegin"
      THEN fail("ICDecompressBegin() failed", [d0 EXCEPT !.m_biFormatOut = out2])
      ELSE IF fin.crash
      THEN fail("crash", [d0 EXCEPT !.m_biFormatOut = out2])
      ELSE [exc |-> "none",
            dec |-> [d0 EXCEPT !.m_biFormatOut = out2,
                               !.m_biFormatIn = fin.v,
                               !.m_decompressing = TRUE,
                               !.m_frameBuf = VecResize(@, biSizeImage(out2, g))]]

(***************************************************************************)
(* Compressor::init: [exc, ret, comp]                                      *)
(***************************************************************************)
Compressor_init(biFormatIn, g, c) ==
  LET c0 == [comp EXCEPT !.m_compressing = FALSE, !.hic = codec.enc \in {"ok", "noStart"}]
      out == BitmapInfoHeader_assign(EncoderFormat(biFormatIn, g), g, c)
  IN  IF codec.enc = "cancel"
      THEN [exc |-> "Compressor selection was canceled", ret |-> FALSE, comp |-> c0]
      ELSE IF codec.enc = "none"
      THEN [exc |-> "none", ret |-> FALSE, comp |-> c0]
      ELSE IF codec.enc = "noStart"
      THEN [exc |-> "ICSeqCompressFrameStart() failed", ret |-> FALSE, comp |-> c0]
      ELSE [exc |-> "none", ret |-> TRUE,
            comp |-> [c0 EXCEPT !.m_compressing = TRUE, !.lpbiIn = biFormatIn,
                                !.m_biFormatOut = out.v]]

(***************************************************************************)
(* main: where an exception or the end of run() leaves it.                 *)
(***************************************************************************)
\* main always returning 0
MainExitCode_zero(threw) == 0

\* the value main returns
MainExitCode(threw) == IF threw THEN 1 ELSE 0

\* init going on to its next step after a call that threw
After_goOn(e, next) ==
  IF e = "crash" THEN [pc |-> "crashed", exitCode |-> exitCode]
  ELSE [pc |-> next, exitCode |-> exitCode]

\* [pc, exitCode] after a call that ended with e
After(e, next) ==
  IF e = "none" THEN [pc |-> next, exitCode |-> exitCode]
  ELSE IF e = "crash" THEN [pc |-> "crashed", exitCode |-> exitCode]
  ELSE [pc |-> "exited", exitCode |-> MainExitCode(TRUE)]

\* the buffer currData points into
CurrBufOf(tag, readerBuf, d, c) ==
  CASE tag = "reader" -> readerBuf
    [] tag = "decompressor" -> d.m_frameBuf
    [] tag = "compressor" -> c.m_frameData
    [] OTHER -> Vec(0, << >>)
CurrBuf == CurrBufOf(run.currData, m_frameBuf, dec, comp)
\* the current frame: currDataSize bytes at currData
CurrBytes == VecBytes(CurrBuf, run.currDataSize, 0)

\* the frames a stage of which has run since s_stop was set
Touch(n) == IF s_stop THEN gh.touched \cup {n} ELSE gh.touched

(***************************************************************************)
(* CodecBench::init                                                        *)
(***************************************************************************)
\* signal() and initArguments
CodecBench_initArguments ==
  /\ pc = "start"
  /\ LET r == initArguments(argv)
         a == After(IF r.ok THEN "none" ELSE r.msg, "initInput")
     IN  /\ cb' = r.cb
         /\ gh' = [gh EXCEPT !.argsOk = r.ok]
         /\ exc' = r.msg
         /\ pc' = a.pc
         /\ exitCode' = a.exitCode
  /\ UNCHANGED << envVars, readerVars, writerVars, h, dec, comp, m_formatDecompressed,
                  m_formatCompressed, run, s_stop >>

\* initInput: the input stream is opened
CodecBench_openInput ==
  /\ pc = "initInput"
  /\ \E g \in GarbageByte :
       IF cb.m_rawin
       THEN VideoReader_openRaw(cb.m_decompFormat, cb.m_decompWidth, cb.m_decompHeight)
       ELSE VideoReader_open(g)
  /\ gh' = [gh EXCEPT !.inTried = (exc' # "Invalid requested decompressed format")]
  /\ pc' = After(exc', "initDecoder").pc
  /\ exitCode' = After(exc', "initDecoder").exitCode
  /\ UNCHANGED << envVars, writerVars, h, cb, dec, comp, m_formatDecompressed,
                  m_formatCompressed, run, s_stop >>

\* initInput: the decompressor is prepared if needed
CodecBench_initDecoder ==
  /\ pc = "initDecoder"
  /\ \E g \in GarbageByte, c \in BOOLEAN :
       LET asked == cb.m_decompFormat # NULL
           f == IF cb.m_decompress /\ asked
                THEN GetDecompFormat(cb.m_decompFormat, biWidth(m_biFormat, g),
                                     biHeight(m_biFormat, g))
                ELSE [ok |-> TRUE, bih |-> << >>]
           r == IF cb.m_decompress /\ f.ok
                THEN Decompressor_init(m_biFormat,
                                       IF asked THEN Vec(SizeofBITMAPINFOHEADER, f.bih)
                                       ELSE NULLPTR,
                                       cb.m_decompWidth, cb.m_decompHeight, g, c)
                ELSE [exc |-> IF f.ok THEN "none"
                              ELSE "Invalid requested decompressed format",
                      dec |-> dec]
           fmt == IF r.exc # "none" THEN [crash |-> FALSE, v |-> m_formatDecompressed]
                  ELSE BitmapInfoHeader_assign(IF cb.m_decompress THEN r.dec.m_biFormatOut
                                               ELSE m_biFormat, g, c)
           e == IF fmt.crash THEN "crash" ELSE r.exc
       IN  /\ dec' = r.dec
           /\ m_formatDecompressed' = IF fmt.crash THEN m_formatDecompressed ELSE fmt.v
           /\ gh' = [gh EXCEPT !.decTried = cb.m_decompress /\ f.ok]
           /\ exc' = e
           /\ pc' = After(e, "initEncoder").pc
           /\ exitCode' = After(e, "initEncoder").exitCode
  /\ UNCHANGED << envVars, readerVars, writerVars, h, cb, comp, m_formatCompressed, run,
                  s_stop >>

\* m_compress kept whatever Compressor::init returned
CompressEnabled_kept(initResult) == TRUE

\* m_compress = m_compressor.init(...)
CompressEnabled(initResult) == initResult

\* initOutput: the compressor is prepared if needed
CodecBench_initEncoder ==
  /\ pc = "initEncoder"
  /\ \E g \in GarbageByte, c \in BOOLEAN :
       LET r == IF cb.m_compress THEN Compressor_init(m_formatDecompressed, g, c)
                ELSE [exc |-> "none", ret |-> FALSE, comp |-> comp]
           enabled == IF cb.m_compress /\ r.exc = "none" THEN CompressEnabled(r.ret)
                      ELSE cb.m_compress
           fmt == IF r.exc # "none" THEN [crash |-> FALSE, v |-> m_formatCompressed]
                  ELSE IF enabled THEN BitmapInfoHeader_assign(r.comp.m_biFormatOut, g, c)
                  ELSE [crash |-> FALSE, v |-> m_formatDecompressed]
           e == IF fmt.crash THEN "crash" ELSE r.exc
       IN  /\ comp' = r.comp
           /\ cb' = [cb EXCEPT !.m_compress = enabled]
           /\ m_formatCompressed' = IF fmt.crash THEN m_formatCompressed ELSE fmt.v
           /\ gh' = [gh EXCEPT !.encTried = cb.m_compress,
                               !.encNone = cb.m_compress /\ r.exc = "none" /\ ~r.ret]
           /\ exc' = e
           /\ pc' = After(e, "initWriter").pc
           /\ exitCode' = After(e, "initWriter").exitCode
  /\ UNCHANGED << envVars, readerVars, writerVars, h, dec, m_formatDecompressed, run, s_stop >>

\* initOutput: the output file is opened if one is given
CodecBench_initWriter ==
  /\ pc = "initWriter"
  /\ IF cb.m_outfile # NULL
     THEN \E g \in GarbageByte, c \in BOOLEAN :
            VideoWriter_open(IF cb.m_rawout THEN NULLPTR ELSE m_formatCompressed, g, c)
     ELSE exc' = "none" /\ UNCHANGED writerVars
  /\ gh' = [gh EXCEPT !.outTried = cb.m_outfile # NULL]
  /\ pc' = After(exc', "loopTest").pc
  /\ exitCode' = After(exc', "loopTest").exitCode
  /\ UNCHANGED << envVars, readerVars, h, cb, dec, comp, m_formatDecompressed,
                  m_formatCompressed, run, s_stop >>

(***************************************************************************)
(* CodecBench::run, one action for each stretch of the loop body; between  *)
(* any two of them the signal handler may run.                             *)
(***************************************************************************)
\* the loop condition without its test of s_stop
LoopCondition_noStop(stop, loop, loopCount) == loop < loopCount

\* while (!s_stop && loop < m_loopCount)
LoopCondition(stop, loop, loopCount) == ~stop /\ loop < loopCount

\* a frame limit of 0 taken as a limit of no frames
LoopEnds_zeroLimit(readOk, currentFrameNum, framesToProcess) ==
  ~readOk \/ currentFrameNum >= framesToProcess

\* the frame limit tested with > in place of >=
LoopEnds_off(readOk, currentFrameNum, framesToProcess) ==
  ~readOk \/ (framesToProcess # 0 /\ currentFrameNum > framesToProcess)

\* !readFrame() || (m_framesToProcess && currentFrameNum >= m_framesToProcess)
LoopEnds(readOk, currentFrameNum, framesToProcess) ==
  ~readOk \/ (framesToProcess # 0 /\ currentFrameNum >= framesToProcess)

Run_LoopTest ==
  /\ pc = "loopTest"
  /\ IF LoopCondition(s_stop, run.loop, cb.m_loopCount)
     THEN /\ pc' = "readFrame"
          /\ UNCHANGED << exitCode, gh >>
     ELSE /\ pc' = "exited"
          /\ exitCode' = MainExitCode(FALSE)
          /\ gh' = [gh EXCEPT !.observed = s_stop,
                              !.atObserve = IF s_stop THEN Totals(run) ELSE @]
  /\ UNCHANGED << envVars, readerVars, writerVars, exc, h, cb, dec, comp,
                  m_formatDecompressed, m_formatCompressed, run, s_stop >>

Run_ReadFrame ==
  /\ pc = "readFrame"
  /\ \E g \in GarbageByte : VideoReader_readFrame(g)
  /\ IF LoopEnds(rf_ret', run.currentFrameNum, cb.m_framesToProcess)
     THEN /\ pc' = "loopEnd"
          /\ UNCHANGED << run, gh >>
     ELSE /\ pc' = "decompress"
          /\ run' = [run EXCEPT !.currentFrameNum = @ + 1,
                                !.numFrames = @ + 1,
                                !.currData = "reader",
                                !.currDataSize = m_frameSize',
                                !.sumInputSize = @ + m_frameSize']
          /\ gh' = [gh EXCEPT !.touched = Touch(run.numFrames + 1)]
  /\ UNCHANGED << envVars, writerVars, exc, h, cb, dec, comp, m_formatDecompressed,
                  m_formatCompressed, s_stop, exitCode >>

\* the end of a loop resetting the total frame count as well
Run_LoopEnd_resetAll ==
  /\ pc = "loopEnd"
  /\ run' = [run EXCEPT !.currentFrameNum = 0, !.numFrames = 0, !.loop = @ + 1]
  /\ IF run.loop + 1 < cb.m_loopCount
     THEN VideoReader_rewind
     ELSE UNCHANGED readerVars
  /\ gh' = [gh EXCEPT !.loop1 = IF run.loop = 0 THEN Totals(run) ELSE @]
  /\ pc' = "loopTest"
  /\ UNCHANGED << envVars, writerVars, exc, h, cb, dec, comp, m_formatDecompressed,
                  m_formatCompressed, s_stop, exitCode >>

Run_LoopEnd ==
  /\ pc = "loopEnd"
  /\ run' = [run EXCEPT !.currentFrameNum = 0, !.loop = @ + 1]
  /\ IF run.loop + 1 < cb.m_loopCount
     THEN VideoReader_rewind
     ELSE UNCHANGED readerVars
  /\ gh' = [gh EXCEPT !.loop1 = IF run.loop = 0 THEN Totals(run) ELSE @]
  /\ pc' = "loopTest"
  /\ UNCHANGED << envVars, writerVars, exc, h, cb, dec, comp, m_formatDecompressed,
                  m_formatCompressed, s_stop, exitCode >>

\* the decode stage carrying the size of the input frame forward
Run_Decompress_inputSize ==
  /\ pc = "decompress"
  /\ \E g \in GarbageByte :
       IF cb.m_decompress
       THEN LET outSize == biSizeImage(dec.m_biFormatOut, g)
            IN  /\ dec' = [dec EXCEPT
                             !.m_biFormatIn = SetField(@, 20, run.currDataSize),
                             !.m_frameBuf = VecStore(@, DecodeFrame(CurrBytes, @.size))]
                /\ run' = [run EXCEPT !.decompSamples = @ + 1,
                                      !.currData = "decompressor",
                                      !.currDataSize = run.currDataSize,
                                      !.sumRawSize = @ + run.currDataSize]
       ELSE /\ run' = [run EXCEPT !.sumRawSize = @ + run.currDataSize]
            /\ UNCHANGED dec
  /\ gh' = [gh EXCEPT
              !.touched = Touch(run.numFrames),
              !.decOut = [size |-> run'.currDataSize,
                          bytes |-> VecBytes(CurrBufOf(run'.currData, m_frameBuf, dec', comp),
                                             run'.currDataSize, 0)]]
  /\ pc' = "compress"
  /\ UNCHANGED << envVars, readerVars, writerVars, exc, h, cb, comp, m_formatDecompressed,
                  m_formatCompressed, s_stop, exitCode >>

Run_Decompress ==
  /\ pc = "decompress"
  /\ \E g \in GarbageByte :
       IF cb.m_decompress
       THEN LET outSize == biSizeImage(dec.m_biFormatOut, g)
            IN  /\ dec' = [dec EXCEPT
                             !.m_biFormatIn = SetField(@, 20, run.currDataSize),
                             !.m_frameBuf = VecStore(@, DecodeFrame(CurrBytes, @.size))]
                /\ run' = [run EXCEPT !.decompSamples = @ + 1,
                                      !.currData = "decompressor",
                                      !.currDataSize = outSize,
                                      !.sumRawSize = @ + outSize]
       ELSE /\ run' = [run EXCEPT !.sumRawSize = @ + run.currDataSize]
            /\ UNCHANGED dec
  /\ gh' = [gh EXCEPT
              !.touched = Touch(run.numFrames),
              !.decOut = [size |-> run'.currDataSize,
                          bytes |-> VecBytes(CurrBufOf(run'.currData, m_frameBuf, dec', comp),
                                             run'.currDataSize, 0)]]
  /\ pc' = "compress"
  /\ UNCHANGED << envVars, readerVars, writerVars, exc, h, cb, comp, m_formatDecompressed,
                  m_formatCompressed, s_stop, exitCode >>

\* the encode stage adding nothing to the output total when it is off
Run_Compress_noTotal ==
  /\ pc = "compress"
  /\ \E g \in GarbageByte, c \in BOOLEAN :
       IF cb.m_compress
       THEN LET inSize == biSizeImage(comp.lpbiIn, g)
                over == Overruns(CurrBuf, inSize)
            IN  IF comp.lpbiIn = NULLPTR
                     \/ (over /\ (c \/ IsHuge(inSize) \/ inSize - CurrBuf.size > MaxOverrun))
                THEN /\ pc' = "crashed"
                     /\ exc' = "crash"
                     /\ UNCHANGED << comp, run, gh >>
                ELSE LET out == EncodeFrame(VecBytes(CurrBuf, inSize, g))
                     IN  /\ comp' = [comp EXCEPT !.m_frameData = Vec(Len(out), out),
                                                 !.m_frameSize = Len(out)]
                         /\ run' = [run EXCEPT !.compSamples = @ + 1,
                                               !.currData = "compressor",
                                               !.currDataSize = Len(out),
                                               !.sumOutputSize = @ + Len(out)]
                         /\ gh' = [gh EXCEPT !.touched = Touch(run.numFrames)]
                         /\ pc' = "write"
                         /\ UNCHANGED exc
       ELSE /\ run' = [run EXCEPT !.sumOutputSize = @ + 0]
            /\ gh' = [gh EXCEPT !.touched = Touch(run.numFrames)]
            /\ pc' = "write"
            /\ UNCHANGED << comp, exc >>
  /\ UNCHANGED << envVars, readerVars, writerVars, h, cb, dec, m_formatDecompressed,
                  m_formatCompressed, s_stop, exitCode >>

Run_Compress ==
  /\ pc = "compress"
  /\ \E g \in GarbageByte, c \in BOOLEAN :
       IF cb.m_compress
       THEN LET inSize == biSizeImage(comp.lpbiIn, g)
                over == Overruns(CurrBuf, inSize)
            IN  IF comp.lpbiIn = NULLPTR
                     \/ (over /\ (c \/ IsHuge(inSize) \/ inSize - CurrBuf.size > MaxOverrun))
                THEN /\ pc' = "crashed"
                     /\ exc' = "crash"
                     /\ UNCHANGED << comp, run, gh >>
                ELSE LET out == EncodeFrame(VecBytes(CurrBuf, inSize, g))
                     IN  /\ comp' = [comp EXCEPT !.m_frameData = Vec(Len(out), out),
                                                 !.m_frameSize = Len(out)]
                         /\ run' = [run EXCEPT !.compSamples = @ + 1,
                                               !.currData = "compressor",
                                               !.currDataSize = Len(out),
                                               !.sumOutputSize = @ + Len(out)]
                         /\ gh' = [gh EXCEPT !.touched = Touch(run.numFrames)]
                         /\ pc' = "write"
                         /\ UNCHANGED exc
       ELSE /\ run' = [run EXCEPT !.sumOutputSize = @ + run.currDataSize]
            /\ gh' = [gh EXCEPT !.touched = Touch(run.numFrames)]
            /\ pc' = "write"
            /\ UNCHANGED << comp, exc >>
  /\ UNCHANGED << envVars, readerVars, writerVars, h, cb, dec, m_formatDecompressed,
                  m_formatCompressed, s_stop, exitCode >>

\* writeFrame if an output file is given, and the progress line
Run_Write ==
  /\ pc = "write"
  /\ IF cb.m_outfile # NULL
     THEN /\ VideoWriter_writeFrame(CurrBytes, run.currDataSize)
          /\ gh' = [gh EXCEPT !.touched = Touch(run.numFrames),
                              !.wrote = [size |-> run.currDataSize, bytes |-> CurrBytes],
                              !.nWritten = @ + 1,
                              !.frames = Append(@, CurrBytes),
                              !.order = Append(@, run.numFrames)]
     ELSE /\ UNCHANGED writerVars
          /\ gh' = [gh EXCEPT !.touched = Touch(run.numFrames)]
  /\ pc' = "loopTest"
  /\ UNCHANGED << envVars, readerVars, exc, h, cb, dec, comp, m_formatDecompressed,
                  m_formatCompressed, run, s_stop, exitCode >>

\* SIGINT once the handler is installed
CodecBench_sighandler ==
  /\ pc \notin {"start", "exited", "crashed"}
  /\ ~s_stop
  /\ s_stop' = TRUE
  /\ UNCHANGED << envVars, readerVars, writerVars, exc, h, cb, dec, comp,
                  m_formatDecompressed, m_formatCompressed, run, pc, exitCode, gh >>

(***************************************************************************)
(* The runs of the program: a command line, the input file on the disk,    *)
(* whether the output file can be created, and the codecs installed.       *)
(***************************************************************************)
S_in == << "i", "n" >>
S_out == << "o", "u", "t" >>
S_x == << "x" >>
NumTok(n) == << Digits[n + 1] >>
\* "-n", and " -n" with a blank before the sign
NegTok(n) == << "-", Digits[n + 1] >>
BlankNegTok(n) == << " ", "-", Digits[n + 1] >>

IN_ == << O_i, S_in >>
OUT_ == << O_o, S_out >>
NDNC == << O_nd, O_nc >>
RAWIN == << O_rawin, O_f, S_RGB24, O_w, NumTok(2), O_h, NumTok(1) >>

LoopOpts ==
  {<< >>, << O_loop, BlankNegTok(1) >>} \cup {<< O_loop, NumTok(k) >> : k \in 0..MaxLoop}
FrameOpts == {<< >>} \cup {<< O_frames, NumTok(f) >> : f \in 0..MaxLimit}
OutOpts == {<< >>, OUT_}
FormatOpts ==
  { << >>, << O_f, S_RGB24 >>, << O_f, S_x >>, << O_h, BlankNegTok(1) >>,
    << O_h, NegTok(1) >>, << O_w, NumTok(2) >>,
    << O_f, S_Y8, O_w, NumTok(2), O_h, NumTok(1) >> }
ShortLoop == {<< >>, << O_loop, NumTok(2), O_frames, NumTok(1) >>}

\* command lines that try the argument checks
ArgLines ==
  { << >>, << S_in >>, OUT_, << O_i >>, IN_ \o << O_o >>, IN_ \o << O_i >>,
    << O_i, O_o, S_out >>, IN_ \o << S_x >>, IN_ \o << O_i, S_x >>,
    IN_ \o << O_f >>, IN_ \o << O_w >>, IN_ \o << O_h >>,
    IN_ \o << O_frames >>, IN_ \o << O_loop >>,
    IN_ \o << O_h, NegTok(2) >>, IN_ \o << O_h, NumTok(2) >>,
    IN_ \o << O_h, BlankNegTok(2) >>, IN_ \o << O_loop, NegTok(1) >>,
    IN_ \o << O_nd, S_1 >>, IN_ \o << O_nc, S_1 >>,
    IN_ \o << O_rawin, S_1 >>, IN_ \o << O_rawout, S_1 >>,
    IN_ \o << O_rawin >>, IN_ \o << O_rawin, O_f, S_RGB24 >>,
    IN_ \o << O_rawin, O_f, S_RGB24, O_w, NumTok(2) >>,
    IN_ \o << O_rawin, O_w, NumTok(2), O_h, NumTok(1) >>,
    IN_ \o << O_rawin, O_f, S_RGB24, O_w, NumTok(0), O_h, NumTok(1) >>,
    IN_ \o << O_rawin, O_f, S_RGB24, O_w, NumTok(2), O_h, S_x >>,
    IN_ \o << O_rawin, O_f, S_RGB24, O_w, NumTok(2), O_h, NegTok(1) >>,
    IN_ \o RAWIN \o << O_nd, S_1 >>, IN_ \o << << "-", "x" >> >> }

\* the frames of the source: MaxFrames of them, none longer than the one before
SourceFrame(i) == [j \in 1..Max(0, MaxFrameLen + 1 - i) |-> 16 * i + j]
SourceFrames == [i \in 1..MaxFrames |-> SourceFrame(i)]
BIH_Source ==
  MakeBIH(SizeofBITMAPINFOHEADER, 2, 1, 24, FourCC(77, 74, 80, 71), MaxFrameLen, << >>)
SourceFile == ContainerFile(BIH_Source, SourceFrames)
HeaderOnlyFile == ContainerFile(BIH_Source, << >>)
\* the source followed by a frame record that is cut short, and by a length
\* prefix that is cut short
CutFrameFile == SourceFile \o ToLE32(3) \o << 1 >>
CutPrefixFile == SourceFile \o << 5, 0 >>
\* MaxFrames raw RGB24 frames of 2x1 pixels and three bytes more
RawSourceFile == RawFile(8 * MaxFrames + 3)
\* the source cut inside its magic, its format block size and its format block
CutHeaderFiles == {SubSeq(SourceFile, 1, n) : n \in {3, 6, 20}}

\* a source with a frame of length 0; a source whose format block has four
\* bytes after the BITMAPINFOHEADER, counted in biSize, and one where biSize
\* does not count them
ZeroFrameFile == ContainerFile(BIH_Source, << << >>, SourceFrame(1) >>)
BIH_SourceExt ==
  MakeBIH(SizeofBITMAPINFOHEADER + 4, 2, 1, 24, FourCC(77, 74, 80, 71), MaxFrameLen,
          << 1, 2, 3, 4 >>)
ExtSourceFile == ContainerFile(BIH_SourceExt, SourceFrames)
BIH_SourceMismatch ==
  MakeBIH(SizeofBITMAPINFOHEADER, 2, 1, 24, FourCC(77, 74, 80, 71), MaxFrameLen,
          << 1, 2, 3, 4 >>)
MismatchFile == ContainerFile(BIH_SourceMismatch, SourceFrames)
CopyFiles == {ZeroFrameFile, ExtSourceFile, MismatchFile}

RunFiles == {SourceFile, CutFrameFile, HeaderOnlyFile}
IOFiles == RunFiles \cup CutHeaderFiles \cup {CutPrefixFile, ForeignFile, RawSourceFile, << >>}

Scenario(a, e, b, cr, d, en) ==
  [argv |-> a, exists |-> e, bytes |-> b, creatable |-> cr, codec |-> [dec |-> d, enc |-> en]]

Scenarios ==
  {Scenario(a, TRUE, SourceFile, TRUE, "ok", "ok") : a \in ArgLines}
    \cup {Scenario(IN_ \o NDNC \o o, TRUE, b, cr, "ok", "ok") :
            o \in OutOpts, b \in IOFiles, cr \in BOOLEAN}
    \cup {Scenario(IN_ \o NDNC \o o, FALSE, << >>, cr, "ok", "ok") :
            o \in OutOpts, cr \in BOOLEAN}
    \cup {Scenario(IN_ \o NDNC \o o \o f \o l, TRUE, b, TRUE, "ok", "ok") :
            o \in OutOpts, f \in FrameOpts, l \in LoopOpts, b \in RunFiles}
    \cup {Scenario(IN_ \o << O_nc >> \o f, TRUE, SourceFile, TRUE, d, "ok") :
            f \in FormatOpts, d \in DecoderOutcomes}
    \cup {Scenario(IN_ \o << O_nd >> \o o \o l, TRUE, SourceFile, cr, "ok", en) :
            o \in OutOpts, l \in ShortLoop, cr \in BOOLEAN, en \in EncoderOutcomes}
    \cup {Scenario(IN_ \o OUT_ \o x \o l, TRUE, SourceFile, TRUE, d, en) :
            x \in {<< >>, << O_rawout >>, << O_rawout, O_nc >>, << O_nd, O_rawout >>},
            l \in ShortLoop, d \in {"ok", "noLocate"}, en \in {"ok", "none", "cancel"}}
    \cup {Scenario(IN_ \o RAWIN \o x \o o \o l, e, RawSourceFile, TRUE, "ok", en) :
            x \in {<< >>, << O_nd >>, << O_nc >>, << O_rawout >>},
            o \in OutOpts, l \in ShortLoop, e \in BOOLEAN, en \in {"ok", "none"}}
    \cup {Scenario(IN_ \o NDNC \o OUT_ \o l, TRUE, b, TRUE, "ok", "ok") :
            l \in {<< >>, << O_loop, NumTok(MaxLoop) >>}, b \in CopyFiles}
    \cup {Scenario(IN_ \o << O_rawin, O_f, f, O_w, NumTok(2), O_h, hh >> \o NDNC \o OUT_,
                   TRUE, RawSourceFile, TRUE, "ok", "ok") :
            f \in {S_RGB24, S_Y8, S_x}, hh \in {NumTok(1), BlankNegTok(1)}}

Init ==
  /\ \E sc \in Scenarios :
       /\ argv = sc.argv
       /\ inFileExists = sc.exists
       /\ inFileBytes = sc.bytes
       /\ outCreatable = sc.creatable
       /\ codec = sc.codec
  /\ h = HInit("main")
  /\ InitReaderWriter
  /\ InitCodecBench

Next ==
  \/ CodecBench_initArguments
  \/ CodecBench_openInput
  \/ CodecBench_initDecoder
  \/ CodecBench_initEncoder
  \/ CodecBench_initWriter
  \/ Run_LoopTest
  \/ Run_ReadFrame
  \/ Run_LoopEnd
  \/ Run_Decompress
  \/ Run_Compress
  \/ Run_Write
  \/ CodecBench_sighandler

Spec == Init /\ [][Next]_vars

(***************************************************************************)
(* Claims about the program, checked under Spec.                           *)
(***************************************************************************)
RunPcs == {"loopTest", "readFrame", "loopEnd", "decompress", "compress", "write"}
\* main returned 0
ExitedZero == pc = "exited" /\ exitCode = 0

\* the complete frames of a container stream from offset pos on
RECURSIVE FramesFrom(_, _)
FramesFrom(bytes, pos) ==
  IF NoCompleteFrameAt(bytes, pos) THEN << >>
  ELSE LET n == LE32(SubSeq(bytes, pos + 1, pos + 4))
       IN  << SubSeq(bytes, pos + 5, pos + 4 + n) >> \o FramesFrom(bytes, pos + 4 + n)

\* the complete frames of a raw stream of frame byte size S > 0
RawFramesOf(bytes, S) == [k \in 1..(Len(bytes) \div S) |-> SubSeq(bytes, (k - 1) * S + 1, k * S)]

\* the complete frames of the opened source
CompleteFrames ==
  IF m_rawR THEN RawFramesOf(inFileBytes, biSizeImage(m_biFormat, 0))
  ELSE FramesFrom(inFileBytes, m_headerSize)

RECURSIVE SumLen(_, _)
SumLen(frames, n) == IF n = 0 THEN 0 ELSE Len(frames[n]) + SumLen(frames, n - 1)

Scale(k, t) ==
  [numFrames |-> k * t.numFrames, sumInputSize |-> k * t.sumInputSize,
   sumRawSize |-> k * t.sumRawSize, sumOutputSize |-> k * t.sumOutputSize]

\* C1: with loopCount K >= 1, a frame limit F with 0 < F <= N (N the number
\* of complete frames of the source) and no interrupt, every frame processed
\* is one of the first F frames of the source, in order, in each of the K
\* loops; when run() returns exactly K*F frames have been processed, and the
\* frame count, input bytes, post-decode bytes and output bytes are each K
\* times what they were at the end of the first loop, which processed F
\* frames.
C1_LoopProperty ==
  (pc \in RunPcs \/ ExitedZero) /\ cb.m_loopCount >= 1 /\ cb.m_framesToProcess > 0
      /\ ~s_stop /\ cb.m_framesToProcess <= Len(CompleteFrames) =>
    LET K == cb.m_loopCount
        F == cb.m_framesToProcess
    IN  /\ pc = "decompress" =>
             /\ run.loop < K
             /\ run.currentFrameNum \in 1..F
             /\ run.numFrames = run.loop * F + run.currentFrameNum
             /\ CurrBytes = CompleteFrames[run.currentFrameNum]
        /\ pc = "exited" =>
             /\ run.loop = K
             /\ run.numFrames = K * F
             /\ gh.loop1.numFrames = F
             /\ gh.loop1.sumInputSize = SumLen(CompleteFrames, F)
             /\ Totals(run) = Scale(K, gh.loop1)

C1_Witness ==
  /\ ExitedZero /\ ~s_stop
  /\ cb.m_loopCount = 2 /\ cb.m_framesToProcess = 1 /\ Len(CompleteFrames) >= 2
  /\ cb.m_compress
  /\ run.numFrames = 2 /\ run.sumOutputSize > 0

\* C6: when Compressor::init returns false ("no compression") nothing is
\* thrown for it, m_compress is false for the rest of the run, the encode
\* timer has no samples, the output descriptor equals the decode-stage
\* descriptor, and the bytes and size given to writeFrame for a frame are
\* those the decode stage left (the reader's frame when decode is disabled).
C6_NegotiationShortCircuit ==
  gh.encNone =>
    /\ pc = "initWriter" => exc = "none"
    /\ pc = "exited" /\ exitCode = 1 => exc = "Failed to open file"
    /\ ~cb.m_compress
    /\ run.compSamples = 0
    /\ m_formatCompressed = m_formatDecompressed
    /\ pc = "write" => run.currDataSize = gh.decOut.size /\ CurrBytes = gh.decOut.bytes
    /\ pc \in {"loopTest", "readFrame", "loopEnd", "decompress", "exited"} /\ gh.nWritten > 0 =>
         gh.wrote = gh.decOut
    /\ pc \in {"loopTest", "readFrame", "loopEnd", "exited"} =>
         run.sumOutputSize = run.sumRawSize

C6_Witness ==
  /\ gh.encNone /\ cb.m_decompress
  /\ ExitedZero
  /\ gh.nWritten >= 2
  /\ gh.wrote.size > 0

\* C7: s_stop is acted on only by the loop condition: after the handler has
\* set it, stages run for at most one frame (the one in flight); when the
\* loop condition reads it as true the loop is left, main returns 0, every
\* frame counted has gone through every enabled stage and been written, and
\* the totals are those of that moment.
C7_Interrupt ==
  /\ Cardinality(gh.touched) <= 1
  /\ gh.touched \subseteq {run.numFrames}
  /\ s_stop /\ pc = "exited" /\ exitCode = 0 => gh.observed
  /\ gh.observed =>
       /\ s_stop
       /\ ExitedZero
       /\ Totals(run) = gh.atObserve
       /\ cb.m_outfile # NULL => gh.nWritten = run.numFrames
       /\ cb.m_decompress => run.decompSamples = run.numFrames
       /\ cb.m_compress => run.compSamples = run.numFrames

C7_Witness ==
  /\ gh.observed
  /\ gh.touched = {1}
  /\ cb.m_decompress /\ cb.m_compress /\ cb.m_outfile # NULL
  /\ run.loop < cb.m_loopCount
  /\ gh.nWritten = 1

(***************************************************************************)
(* The command line read without the parser: an option's value is the      *)
(* token after its last occurrence, if that token does not start with '-'. *)
(***************************************************************************)
HasOpt(args, o) == \E i \in 1..Len(args) : args[i] = o
LastIndex(args, o) ==
  CHOOSE i \in 1..Len(args) : args[i] = o /\ \A j \in (i + 1)..Len(args) : args[j] # o
HasValue(args, o) ==
  /\ HasOpt(args, o)
  /\ LastIndex(args, o) < Len(args)
  /\ ~StartsWithDash(args[LastIndex(args, o) + 1])
OptValue(args, o) == args[LastIndex(args, o) + 1]

ValueOptions == {O_f, O_w, O_h, O_frames, O_loop, O_i, O_o}
NoArguments(args) == Len(args) = 0
NoInputPath(args) == ~HasOpt(args, O_i)
MissingValue(args) == \E o \in ValueOptions : HasOpt(args, o) /\ ~HasValue(args, o)
RawWithoutGeometry(args) ==
  /\ HasOpt(args, O_rawin)
  /\ \/ ~HasValue(args, O_f)
     \/ ~HasValue(args, O_w) \/ atoi(OptValue(args, O_w)) = 0
     \/ ~HasValue(args, O_h) \/ atoi(OptValue(args, O_h)) = 0
ArgumentError(args) ==
  NoArguments(args) \/ NoInputPath(args) \/ MissingValue(args) \/ RawWithoutGeometry(args)

\* C9: when the command line has no arguments, has no -i, gives one of -f,
\* -w, -h, -frames, -loop, -i, -o without a value, or gives -rawin without
\* all of a format name, a non-zero width and a non-zero height, then
\* initArguments throws, main returns 1, neither stream has been opened and
\* neither ICLocate nor ICCompressorChoose has been called.
C9_ArgumentErrorBeforeIO ==
  ArgumentError(argv) /\ pc # "start" =>
    /\ pc = "exited"
    /\ exitCode = 1
    /\ ~gh.argsOk
    /\ ~gh.inTried /\ ~m_inFile.open
    /\ ~gh.outTried /\ ~m_outFile.open
    /\ ~gh.decTried /\ ~gh.encTried
    /\ ~dec.m_hic /\ ~comp.hic

C9_Witness ==
  /\ pc = "exited"
  /\ HasValue(argv, O_i)
  /\ HasOpt(argv, O_rawin) /\ HasValue(argv, O_f) /\ HasValue(argv, O_w)
  /\ ~HasOpt(argv, O_h)
  /\ RawWithoutGeometry(argv) /\ ~MissingValue(argv)

\* a '-' and then digits only
IsNegativeInteger(tok) ==
  Len(tok) >= 2 /\ tok[1] = "-" /\ \A i \in 2..Len(tok) : IsDigit(tok[i])
\* the last -h is followed by a negative integer
NegativeHeightGiven(args) ==
  /\ HasOpt(args, O_h)
  /\ LastIndex(args, O_h) < Len(args)
  /\ IsNegativeInteger(args[LastIndex(args, O_h) + 1])
\* the command line with the sign of that height taken away
WithoutSign(args) ==
  [i \in 1..Len(args) |-> IF i = LastIndex(args, O_h) + 1 THEN Tail(args[i]) ELSE args[i]]

\* C10: for every command line in which -h is followed by a negative integer
\* (and which is accepted when the integer is given without its sign),
\* initArguments returns and m_decompHeight is that negative value.
C10_NegativeHeight ==
  NegativeHeightGiven(argv) /\ initArguments(WithoutSign(argv)).ok /\ pc # "start" =>
    /\ gh.argsOk
    /\ cb.m_decompHeight = atoi(argv[LastIndex(argv, O_h) + 1])
    /\ cb.m_decompHeight < 0

(***************************************************************************)
(* The failures main reports, read from the run's inputs.                  *)
(***************************************************************************)
SupportedFormats ==
  {S_RGB24, S_bgr24, S_RGB32, S_bgr32, S_BGRA, S_AYUV, S_YUY2, S_UYVY, S_YV12, S_YV24,
   S_Y8, S_b64a, S_b48r, S_v210, S_r210}

InputCannotOpen == ~inFileExists
BadMagic ==
  /\ inFileExists /\ ~cb.m_rawin
  /\ Len(inFileBytes) >= 4 /\ LE32(SubSeq(inFileBytes, 1, 4)) # Magic
UnsupportedFormat ==
  /\ cb.m_rawin \/ cb.m_decompress
  /\ cb.m_decompFormat # NULL /\ cb.m_decompFormat \notin SupportedFormats
DecoderNegotiationFails ==
  /\ ~HasOpt(argv, O_rawin) /\ ~HasOpt(argv, O_nd)
  /\ \/ codec.dec \in {"noLocate", "noBegin"}
     \/ codec.dec = "noQueryFormat" /\ cb.m_decompFormat # NULL
     \/ codec.dec \in {"noFormatSize", "noGetFormat"} /\ cb.m_decompFormat = NULL
     \/ codec.dec = "noQuerySize" /\ (cb.m_decompWidth # 0 \/ cb.m_decompHeight # 0)
EncoderNegotiationFails ==
  /\ ~HasOpt(argv, O_rawout) /\ ~HasOpt(argv, O_nc)
  /\ codec.enc \in {"cancel", "noStart"}
OutputCannotCreate == cb.m_outfile # NULL /\ ~outCreatable

ListedFailure ==
  \/ ArgumentError(argv)
  \/ gh.argsOk /\ \/ InputCannotOpen
                  \/ BadMagic
                  \/ UnsupportedFormat
                  \/ DecoderNegotiationFails
                  \/ EncoderNegotiationFails
                  \/ OutputCannotCreate

\* init and run() have both returned
InitAndRunComplete ==
  /\ gh.argsOk
  /\ m_inFile.open
  /\ cb.m_outfile # NULL => m_outFile.open
  /\ cb.m_decompress => dec.m_decompressing
  /\ cb.m_compress => comp.m_compressing
  /\ gh.observed \/ run.loop >= cb.m_loopCount
\* an exception reached main's handler
FailureReported == exc \notin {"none", "crash"}

\* C8: main returns 0 exactly when init and run() have both returned and no
\* failure was reported, whether the loop ended at the end of the input or
\* by s_stop; it returns 1 exactly when a failure was reported; and every
\* failure of the list (bad arguments, an input that cannot be opened or
\* has a bad magic, an unsupported format name, a negotiation failure, an
\* output that cannot be created) makes it return 1.
C8_ExitCodes ==
  /\ pc # "exited" => exitCode = -1
  /\ pc = "exited" =>
       /\ exitCode \in {0, 1}
       /\ exitCode = 0 <=> InitAndRunComplete /\ ~FailureReported
       /\ exitCode = 1 <=> FailureReported
       /\ ListedFailure => exitCode = 1
       /\ gh.observed => exitCode = 0
  /\ ListedFailure => pc \notin RunPcs

C8_Witness ==
  /\ pc = "exited" /\ exitCode = 0
  /\ gh.observed
  /\ run.numFrames >= 1 /\ run.loop = 0
  /\ cb.m_outfile # NULL

RECURSIVE Flatten(_)
Flatten(frames) == IF frames = << >> THEN << >> ELSE Head(frames) \o Flatten(Tail(frames))

\* C11: when -rawin is given, whatever -nd says, the decode stage is off for
\* the whole run: no decoder is located and no frame is decoded; when
\* -rawout is given, whatever -nc says, the encode stage is off for the
\* whole run: no encoder is chosen, no frame is encoded, and the output file
\* holds the frames' bytes one after the other with no header and no length
\* prefix.
C11_StageForcing ==
  gh.argsOk =>
    /\ HasOpt(argv, O_rawin) =>
         /\ ~cb.m_decompress
         /\ ~gh.decTried /\ ~dec.m_hic /\ ~dec.m_decompressing
         /\ run.decompSamples = 0
         /\ run.currData # "decompressor"
         /\ run.sumRawSize <= run.sumInputSize
    /\ HasOpt(argv, O_rawout) =>
         /\ ~cb.m_compress
         /\ ~gh.encTried /\ ~comp.hic /\ ~comp.m_compressing
         /\ run.compSamples = 0
         /\ run.currData # "compressor"
         /\ m_outFile.open => m_rawW /\ m_outFile.bytes = Flatten(gh.frames)

C11_Witness ==
  /\ ExitedZero
  /\ HasOpt(argv, O_rawin) /\ ~HasOpt(argv, O_nd)
  /\ HasOpt(argv, O_rawout) /\ ~HasOpt(argv, O_nc)
  /\ Len(gh.frames) >= 2 /\ Len(m_outFile.bytes) = 16

\* C12: with loopCount K >= 1 and no interrupt, when the frame limit is 0
\* or is greater than N (the number of complete frames of the source) every
\* loop processes the N complete frames in order, so run() returns after
\* exactly K*N frames; without -loop the loop count is 1 and the source is
\* processed once.
C12_UnlimitedFrames ==
  /\ gh.argsOk /\ ~HasOpt(argv, O_loop) => cb.m_loopCount = 1
  /\ (pc \in RunPcs \/ ExitedZero) /\ cb.m_loopCount >= 1 /\ ~s_stop
        /\ (cb.m_framesToProcess = 0 \/ cb.m_framesToProcess > Len(CompleteFrames)) =>
       LET K == cb.m_loopCount
           N == Len(CompleteFrames)
       IN  /\ pc = "decompress" =>
                /\ run.loop < K
                /\ run.currentFrameNum \in 1..N
                /\ run.numFrames = run.loop * N + run.currentFrameNum
                /\ CurrBytes = CompleteFrames[run.currentFrameNum]
           /\ pc = "loopEnd" => run.currentFrameNum = N
           /\ pc = "exited" =>
                /\ run.loop = K
                /\ run.numFrames = K * N
                /\ run.sumInputSize = K * SumLen(CompleteFrames, N)

C12_Witness ==
  /\ ExitedZero /\ ~s_stop
  /\ cb.m_framesToProcess = 0 /\ cb.m_loopCount = 2
  /\ Len(CompleteFrames) = MaxFrames
  /\ run.numFrames = 2 * MaxFrames

\* C13: in every step the total frame count, the cumulative input,
\* post-decode and output bytes and the sample counts of the two timers do
\* not decrease; the per-loop frame counter decreases only at the end of a
\* loop, where it becomes 0 and the totals stay as they are, rewind or not.
C13_MonotoneStatistics ==
  [][/\ run'.numFrames >= run.numFrames
     /\ run'.sumInputSize >= run.sumInputSize
     /\ run'.sumRawSize >= run.sumRawSize
     /\ run'.sumOutputSize >= run.sumOutputSize
     /\ run'.decompSamples >= run.decompSamples
     /\ run'.compSamples >= run.compSamples
     /\ run'.currentFrameNum < run.currentFrameNum =>
          /\ pc = "loopEnd"
          /\ run'.currentFrameNum = 0
          /\ Totals(run') = Totals(run)
          /\ run'.decompSamples = run.decompSamples
          /\ run'.compSamples = run.compSamples]_vars

\* a second loop has begun after a rewind, with totals from the first
C13_Witness ==
  /\ pc = "readFrame" /\ run.loop = 1 /\ run.currentFrameNum = 0
  /\ m_inFile.pos = m_headerSize /\ ~m_inFile.eof
  /\ run.numFrames >= 1
  /\ run.sumInputSize > 0 /\ run.sumRawSize > 0 /\ run.sumOutputSize > 0
  /\ run.decompSamples = run.numFrames /\ run.compSamples = run.numFrames

\* the file has a first 32-bit word
HasFirstWord(bytes) == Len(bytes) >= 4
FirstWord(bytes) == LE32(SubSeq(bytes, 1, 4))
\* VideoReader::open has been called on a file that could be opened
ContainerOpenReturned ==
  gh.argsOk /\ ~cb.m_rawin /\ inFileExists /\ pc \notin {"start", "initInput"}

\* C14: VideoReader::open on a file that can be opened fails with "Invalid
\* file magic" exactly when the first 32-bit word of the file differs from
\* 0xABCDEF01; when it fails with that error, the format descriptor holds
\* nothing of the file, no frame was read or counted, and the process has
\* exited with 1.
C14_BadMagic ==
  ContainerOpenReturned =>
    /\ HasFirstWord(inFileBytes) =>
         ((exc = "Invalid file magic") <=> (FirstWord(inFileBytes) # Magic))
    /\ exc = "Invalid file magic" =>
         /\ m_biFormat = Vec(SizeofBITMAPINFOHEADER, << >>)
         /\ m_headerSize = 0
         /\ m_frameBuf = Vec(0, << >>) /\ m_frameSize = 0 /\ ~rf_ret
         /\ run = RunLocals
         /\ ~gh.decTried /\ ~gh.encTried /\ ~gh.outTried
         /\ pc = "exited" /\ exitCode = 1

\* a file of another format was opened and refused
C14_Witness ==
  /\ ContainerOpenReturned /\ inFileBytes = ForeignFile
  /\ HasFirstWord(inFileBytes) /\ FirstWord(inFileBytes) # Magic
  /\ exc = "Invalid file magic" /\ exitCode = 1

(***************************************************************************)
(* GetDecompFormat on its own: a format name, a width and a height are     *)
(* drawn, and the function fills the reader's header as openRaw has it do. *)
(***************************************************************************)
MaxWidth == 65
MaxHeight == 2
S_rgb24 == << "r", "g", "b", "2", "4" >>
S_RGB2 == << "R", "G", "B", "2" >>
S_RGB24x == << "R", "G", "B", "2", "4", "x" >>
OtherNames == {S_x, S_rgb24, S_RGB2, S_RGB24x, << >>}
FormatNames == SupportedFormats \cup OtherNames
Heights == {hh \in (0 - MaxHeight)..MaxHeight : hh # 0}

InitFormat ==
  /\ argv = << >>
  /\ codec = NoCodec
  /\ inFileExists = FALSE
  /\ inFileBytes = << >>
  /\ outCreatable = TRUE
  /\ InitCodecBench
  /\ InitReaderWriter
  /\ \E f \in FormatNames, w \in 1..MaxWidth, hh \in Heights :
       h = [HInit("format") EXCEPT !.geo = << f, w, hh >>]

F_GetDecompFormat ==
  /\ h.mode = "format" /\ h.phase = "start"
  /\ LET f == GetDecompFormat(h.geo[1], h.geo[2], h.geo[3])
     IN  /\ m_biFormat' = Vec(SizeofBITMAPINFOHEADER, f.bih)
         /\ exc' = IF f.ok THEN "none" ELSE "Invalid requested decompressed format"
  /\ h' = [h EXCEPT !.phase = "resolved", !.op = "GetDecompFormat", !.fmtAtOpen = m_biFormat']
  /\ UNCHANGED << envVars, writerVars, mainVars >>
  /\ UNCHANGED << m_frameBuf, m_frameSize, m_inFile, m_headerSize, m_rawR, rf_ret >>

NextFormat == F_GetDecompFormat

SpecFormat == InitFormat /\ [][NextFormat]_vars

\* the least multiple of d that is not below n, and the number of blocks of
\* d that cover n
AlignUp(n, d) == CHOOSE m \in n..(n + d - 1) : m % d = 0
Ceil(n, d) == CHOOSE q \in 0..n : (q - 1) * d < n /\ n <= q * d
\* bits of one pixel in the formats whose rows are not padded
PackedBits(f) ==
  CASE f \in {S_RGB32, S_bgr32, S_BGRA, S_AYUV} -> 32
    [] f \in {S_YUY2, S_UYVY} -> 16
    [] f = S_YV12 -> 12
    [] f = S_YV24 -> 24
    [] f = S_Y8 -> 8
    [] f = S_b64a -> 64
    [] f = S_b48r -> 48
\* the size of a frame of w by a pixels by the rule of its format
RuleSize(f, w, a) ==
  CASE f \in {S_RGB24, S_bgr24} -> AlignUp(3 * w, 4) * a
    [] f = S_v210 -> Ceil(w, 48) * 128 * a
    [] f = S_r210 -> Ceil(w, 64) * 256 * a
    [] OTHER -> (w * a * PackedBits(f)) \div 8
Resolved == h.mode = "format" /\ h.phase = "resolved"

\* C15: for a supported format name, a positive width w and a height h
\* other than 0, GetDecompFormat gives the frame size of the format's rule
\* computed with |h| (rows of 3*w bytes padded to 4 for RGB24, 128 bytes for
\* every 48 pixels begun for v210, 256 bytes for every 64 pixels begun for
\* r210), and gives the same size for -h; for any other name it throws
\* "Invalid requested decompressed format", whatever the sign of h.
C15_FrameSize ==
  Resolved =>
    LET f == h.geo[1]
        w == h.geo[2]
        hh == h.geo[3]
        other == GetDecompFormat(f, w, 0 - hh)
    IN  IF f \in SupportedFormats
        THEN /\ exc = "none"
             /\ biWidth(m_biFormat, 0) = w /\ biHeight(m_biFormat, 0) = hh
             /\ biSizeImage(m_biFormat, 0) = RuleSize(f, w, Abs(hh))
             /\ other.ok
             /\ biSizeImage(Vec(SizeofBITMAPINFOHEADER, other.bih), 0)
                  = biSizeImage(m_biFormat, 0)
        ELSE /\ exc = "Invalid requested decompressed format"
             /\ ~other.ok

\* v210 at a width one past a block of 48 pixels, with a negative height
C15_Witness ==
  /\ Resolved /\ h.geo = << S_v210, 49, 0 - 2 >>
  /\ exc = "none" /\ biSizeImage(m_biFormat, 0) = 512

(***************************************************************************)
(* Claims about the output and the statistics, checked under Spec.         *)
(***************************************************************************)
\* the loop condition is about to be tested, or run() has returned
IterationBoundary == pc = "loopTest" \/ ExitedZero
\* frames taken from the source in one loop
FramesPerLoop ==
  IF cb.m_framesToProcess = 0 THEN Len(CompleteFrames)
  ELSE Min(cb.m_framesToProcess, Len(CompleteFrames))
\* the k-th frame read since the start of run()
FrameRead(k) == CompleteFrames[((k - 1) % FramesPerLoop) + 1]
\* what the decode stage hands on for a frame
Decoded(data) ==
  IF cb.m_decompress THEN DecodeFrame(data, biSizeImage(dec.m_biFormatOut, 0)) ELSE data
\* the frame is of the size the encoder takes from its input format
EncoderInputFits(raw) == Len(raw) = biSizeImage(comp.lpbiIn, 0)
\* what VideoWriter::open left in the file
OutputHeader ==
  IF m_rawW THEN << >>
  ELSE ToLE32(Magic) \o ToLE32(biSize(m_formatCompressed, 0))
         \o VecBytes(m_formatCompressed, biSize(m_formatCompressed, 0), 0)

\* C16: with an output file open, whenever the loop condition of run() is
\* about to be tested and after run() has returned, by the end of the input
\* or by s_stop, writeFrame has been called once for every frame counted;
\* the k-th frame written is what the stages made of the k-th frame read
\* (for the encoder, when the frame has the size of its input format);
\* and at every point of the run the file is the header followed by the
\* frames written so far, in that order, each as its 4-byte length and its
\* bytes (container) or as its bytes alone (raw), with nothing after them.
C16_FrameExactOutput ==
  cb.m_outfile # NULL /\ m_outFile.open /\ (pc \in RunPcs \/ ExitedZero) =>
    /\ IterationBoundary =>
         /\ gh.nWritten = run.numFrames
         /\ Len(gh.frames) = run.numFrames
    /\ gh.order = [k \in 1..Len(gh.frames) |-> k]
    /\ \A k \in 1..Len(gh.frames) :
         LET raw == Decoded(FrameRead(k))
         IN  IF ~cb.m_compress THEN gh.frames[k] = raw
             ELSE EncoderInputFits(raw) => gh.frames[k] = EncodeFrame(raw)
    /\ m_outFile.bytes =
         OutputHeader \o (IF m_rawW THEN Flatten(gh.frames) ELSE FrameRecords(gh.frames))

\* a container output holding a frame of the second loop when run() is
\* ended by s_stop
C16_Witness ==
  /\ ExitedZero /\ gh.observed /\ ~m_rawW /\ m_outFile.open
  /\ cb.m_compress
  /\ run.loop = 1 /\ run.numFrames >= 2 /\ gh.nWritten = run.numFrames

\* the steps of init that have succeeded
ReaderOpened == gh.argsOk /\ gh.inTried /\ m_inFile.open
DecoderReady == ReaderOpened /\ (cb.m_decompress => gh.decTried /\ dec.m_decompressing)
EncoderReady == DecoderReady /\ (cb.m_compress => gh.encTried /\ comp.m_compressing)
WriterReady == EncoderReady /\ (cb.m_outfile # NULL => gh.outTried /\ m_outFile.open)
\* what Decompressor::init and Compressor::init throw
NegotiationErrors ==
  {"Could not find appropriate decompressor",
   "The decompressor cannot decompress to the requested format/size",
   "ICDecompressGetFormatSize() failed", "ICDecompressGetFormat() failed",
   "The decompressor cannot decompress to the specified size",
   "ICDecompressBegin() failed",
   "Compressor selection was canceled", "ICSeqCompressFrameStart() failed"}
\* no frame has been read, decoded, encoded or written
NoFrameProcessed ==
  /\ run = RunLocals
  /\ m_frameBuf = Vec(0, << >>) /\ m_frameSize = 0 /\ ~rf_ret
  /\ gh.decOut = NoData /\ gh.wrote = NoData
  /\ gh.nWritten = 0 /\ gh.frames = << >>

\* C17: the steps of init are taken in the order argument checks, reader
\* open, decoder negotiation (when decoding), encoder negotiation (when
\* encoding), writer open (when an output path is given), each only after
\* the ones before it have succeeded; the loop of run() is entered only
\* after all of them have; when one of them fails, the process exits with
\* no frame read, decoded, encoded or written and with the output file not
\* created, so a negotiation failure precedes the creation of the output.
C17_SetupOrder ==
  /\ gh.inTried => gh.argsOk
  /\ gh.decTried => ReaderOpened
  /\ gh.encTried => DecoderReady
  /\ gh.outTried => EncoderReady
  /\ m_outFile.open => gh.outTried
  /\ pc \in RunPcs \/ ExitedZero => WriterReady /\ ~FailureReported
  /\ pc \in {"start", "initInput", "initDecoder", "initEncoder", "initWriter"} => NoFrameProcessed
  /\ FailureReported =>
       /\ pc = "exited" /\ exitCode = 1
       /\ NoFrameProcessed
       /\ ~m_outFile.open
       /\ exc \in NegotiationErrors => (gh.decTried \/ gh.encTried) /\ ~gh.outTried

\* the decoder is refused although an output path is given and the file
\* could be created
C17_Witness ==
  /\ exc \in NegotiationErrors /\ pc = "exited"
  /\ cb.m_outfile # NULL /\ outCreatable
  /\ gh.decTried /\ ~dec.m_decompressing /\ ~gh.encTried /\ ~gh.outTried
  /\ ~m_outFile.open

\* the container begins with the magic and ends before the 4 bytes of the
\* format block size, or before the number of format block bytes declared
TruncatedHeader(bytes) ==
  /\ HasFirstWord(bytes) /\ FirstWord(bytes) = Magic
  /\ \/ Len(bytes) < 8
     \/ LET formatSize == LE32(SubSeq(bytes, 5, 8))
        IN  IsHuge(formatSize) \/ Len(bytes) - 8 < formatSize

\* C18: when the container begins with the magic and ends before the format
\* block size or before the declared number of format block bytes, once
\* VideoReader::open has been called the process has exited with 1 on a
\* reported failure and no frame has been read, decoded, encoded or
\* written.
C18_TruncatedHeaderFatal ==
  ContainerOpenReturned /\ TruncatedHeader(inFileBytes) =>
    /\ pc = "exited" /\ exitCode = 1
    /\ FailureReported
    /\ NoFrameProcessed

\* the sizes of the first n frames read, added up
RECURSIVE SumRead(_)
SumRead(n) == IF n = 0 THEN 0 ELSE Len(FrameRead(n)) + SumRead(n - 1)
\* biSizeImage of the format the decoder was set up to produce
DecodedFrameSize == biSizeImage(dec.m_biFormatOut, 0)

\* C19: with the decode stage on, the size handed on after decoding a frame
\* is biSizeImage of the decoder's output format whatever the size of the
\* frame read, so whenever the loop condition of run() is about to be
\* tested and after run() has returned, the post-decode total is the frame
\* count times that size and the input total is the sum of the sizes of the
\* frames read.
C19_PostDecodeSize ==
  cb.m_decompress /\ (pc \in RunPcs \/ ExitedZero) =>
    /\ pc = "compress" =>
         /\ run.currDataSize = DecodedFrameSize
         /\ gh.decOut.size = DecodedFrameSize
         /\ run.sumRawSize = run.numFrames * DecodedFrameSize
    /\ IterationBoundary =>
         /\ run.sumRawSize = run.numFrames * DecodedFrameSize
         /\ run.sumInputSize = SumRead(run.numFrames)

\* two frames of different sizes have been decoded to frames of one size,
\* which is neither of theirs
C19_Witness ==
  /\ cb.m_decompress /\ ExitedZero
  /\ run.numFrames = MaxFrames
  /\ run.sumInputSize = SumLen(CompleteFrames, MaxFrames)
  /\ Len(CompleteFrames[1]) # Len(CompleteFrames[MaxFrames])
  /\ \A k \in 1..MaxFrames : Len(CompleteFrames[k]) # DecodedFrameSize
  /\ run.sumRawSize = MaxFrames * DecodedFrameSize

\* C20: whenever the loop condition of run() is about to be tested and
\* after run() has returned: with the decode stage off the post-decode
\* total equals the input total and the decode timer has no sample; with
\* the encode stage off the output total equals the post-decode total and
\* the encode timer has no sample; a stage that is on has one sample in its
\* timer for every frame counted.
C20_StageStatistics ==
  IterationBoundary =>
    /\ IF cb.m_decompress
       THEN run.decompSamples = run.numFrames
       ELSE run.sumRawSize = run.sumInputSize /\ run.decompSamples = 0
    /\ IF cb.m_compress
       THEN run.compSamples = run.numFrames
       ELSE run.sumOutputSize = run.sumRawSize /\ run.compSamples = 0

\* frames were decoded and not encoded
C20_Witness ==
  /\ ExitedZero /\ cb.m_decompress /\ ~cb.m_compress
  /\ run.numFrames >= 2 /\ run.decompSamples = run.numFrames /\ run.compSamples = 0
  /\ run.sumOutputSize = run.sumRawSize /\ run.sumRawSize # run.sumInputSize

\* the format block size written in the container, and the format block
FormatBlockSize(bytes) == LE32(SubSeq(bytes, 5, 8))
FormatBlock(bytes) == SubSeq(bytes, 9, 8 + FormatBlockSize(bytes))
\* magic, a format block of the size it declares in biSize, then complete
\* frame records up to the end of the file
WellFormedContainer(bytes) ==
  /\ Len(bytes) >= 12
  /\ FirstWord(bytes) = Magic
  /\ FormatBlockSize(bytes) >= 4 /\ FormatBlockSize(bytes) <= Len(bytes) - 8
  /\ LE32(SubSeq(bytes, 9, 12)) = FormatBlockSize(bytes)
  /\ bytes = ContainerFile(FormatBlock(bytes), FramesFrom(bytes, 8 + FormatBlockSize(bytes)))
\* the sequence s, k times over
RECURSIVE Repeat(_, _)
Repeat(s, k) == IF k <= 0 THEN << >> ELSE s \o Repeat(s, k - 1)
\* decode and encode off, container in and out, no frame limit, K >= 1 loops
PassThrough ==
  /\ gh.argsOk /\ inFileExists /\ outCreatable
  /\ ~cb.m_rawin /\ ~cb.m_rawout /\ cb.m_outfile # NULL
  /\ ~HasOpt(argv, O_rawin) /\ HasOpt(argv, O_nd) /\ HasOpt(argv, O_nc)
  /\ cb.m_framesToProcess = 0 /\ cb.m_loopCount >= 1
  /\ WellFormedContainer(inFileBytes)

\* C22: with decode and encode off, a container input made of the magic, a
\* format block of the size its biSize declares and N complete frames, a
\* container output, no frame limit and no SIGINT, the run ends with exit
\* code 0 or is still running, never in a fault or a reported failure; when
\* it has ended, the output is byte for byte the input for a loop count of
\* 1, and for a loop count of K the input's header followed by its frame
\* records K times over.
C22_PassThrough ==
  PassThrough =>
    /\ pc # "crashed" /\ ~FailureReported
    /\ ExitedZero /\ ~s_stop =>
         LET hs == 8 + FormatBlockSize(inFileBytes)
             header == SubSeq(inFileBytes, 1, hs)
             records == SubSeq(inFileBytes, hs + 1, Len(inFileBytes))
         IN  /\ m_outFile.open
             /\ m_outFile.bytes = header \o Repeat(records, cb.m_loopCount)
             /\ cb.m_loopCount = 1 => m_outFile.bytes = inFileBytes

\* the source with the longer format block and all its frames, copied
C22_Witness ==
  /\ PassThrough /\ ExitedZero /\ ~s_stop
  /\ cb.m_loopCount = 1 /\ inFileBytes = ExtSourceFile
  /\ run.numFrames = MaxFrames
  /\ m_outFile.bytes = inFileBytes

(***************************************************************************)
(* The reader's frame buffer over readFrame and rewind calls.  size() is   *)
(* what readFrame tests and resize() sets; it is compared as the unsigned  *)
(* number it is.                                                           *)
(***************************************************************************)
\* a step of the harness that called readFrame
ReadFrameCalled == h.phase = "reading" /\ h'.op = "readFrame"

\* the frame a readFrame call returned: its size, and 0 when it reported the
\* end of the stream
CompleteFrameSize == IF rf_ret THEN m_frameSize ELSE 0

C23_NeverShrinks == [][~ULess(m_frameBuf'.size, m_frameBuf.size)]_vars

C23_FitsFrame ==
  h.phase = "reading" /\ h.op = "readFrame" /\ rf_ret
    => ~ULess(m_frameBuf.size, m_frameSize)

\* the buffer is empty until the first call, a call that returns a frame
\* larger than the buffer leaves it of that frame's size, and no other step
\* changes it: by induction it is the largest complete frame seen
C23_LargestComplete ==
  /\ [](h.phase \in {"idle", "start", "writing"} => m_frameBuf.size = 0)
  /\ [][m_frameBuf'.size =
          IF ReadFrameCalled /\ ULess(m_frameBuf.size, CompleteFrameSize')
          THEN CompleteFrameSize' ELSE m_frameBuf.size]_vars

\* C23: across any sequence of readFrame and rewind calls the size of the
\* reader's frame buffer never decreases, after every readFrame that returned
\* a frame it is at least that frame's size, and it is the largest size among
\* the complete frames returned so far: a call that reports the end of the
\* stream does not grow it.
C23_BufferReuse ==
  /\ C23_NeverShrinks
  /\ []C23_FitsFrame
  /\ C23_LargestComplete

(***************************************************************************)
(* The program left to run: the same steps as Spec, those of run() taken   *)
(* for as long as one is possible, whether or not SIGINT ever arrives.     *)
(* The scenarios of Spec are joined by a container with a frame of length  *)
(* 0 and by raw inputs whose width is negative.  The frame count is an     *)
(* int; here it is followed up to MaxCount, more frames than the longest   *)
(* input holds bytes in MaxLoop loops.                                     *)
(***************************************************************************)
MaxCount == MaxLoop * Len(RawSourceFile) + 1
NegativeWidth(f) == << O_rawin, O_f, f, O_w, BlankNegTok(1), O_h, NumTok(1) >>
LiveScenarios ==
  Scenarios
    \cup {Scenario(IN_ \o NDNC \o l, TRUE, ZeroFrameFile, TRUE, "ok", "ok") :
            l \in ShortLoop}
    \cup {Scenario(IN_ \o NegativeWidth(f) \o x \o l, TRUE, b, TRUE, "ok", "ok") :
            f \in {S_RGB24, S_v210, S_Y8},
            x \in {<< O_nc >>, << O_rawout >> \o OUT_, << O_nc, O_frames, NumTok(1) >>},
            l \in {<< >>, << O_loop, NumTok(2) >>},
            b \in {RawSourceFile, << >>}}

InitLive ==
  /\ \E sc \in LiveScenarios :
       /\ argv = sc.argv
       /\ inFileExists = sc.exists
       /\ inFileBytes = sc.bytes
       /\ outCreatable = sc.creatable
       /\ codec = sc.codec
  /\ h = HInit("main")
  /\ InitReaderWriter
  /\ InitCodecBench

Run_ReadFrameCounted == run.numFrames < MaxCount /\ Run_ReadFrame

\* the steps of CodecBench::run
RunStep ==
  \/ Run_LoopTest
  \/ Run_ReadFrameCounted
  \/ Run_LoopEnd
  \/ Run_Decompress
  \/ Run_Compress
  \/ Run_Write

NextLive ==
  \/ CodecBench_initArguments
  \/ CodecBench_openInput
  \/ CodecBench_initDecoder
  \/ CodecBench_initEncoder
  \/ CodecBench_initWriter
  \/ RunStep
  \/ CodecBench_sighandler

\* once in run(), the program goes on for as long as it has a step to take
SpecLive == InitLive /\ [][NextLive]_vars /\ WF_vars(RunStep)

\* run() has returned to main, or the process has ended
LeftLoop == pc \in {"exited", "crashed"}

\* C21: with or without SIGINT, run() once entered leaves its loop: every call of
\* readFrame in the loop either ends the loop pass (the loop counter is
\* incremented) or counts a frame and moves the input forward, for frames
\* of length 0 in a container as well and in raw mode for every frame size
\* resolved; and with a loop count of 0 or less no frame is read or counted.
C21_Termination ==
  /\ [](pc \in RunPcs /\ cb.m_loopCount <= 0 => pc = "loopTest" /\ run = RunLocals)
  /\ [][pc = "readFrame" /\ pc' # "readFrame" =>
          \/ pc' = "loopEnd"
          \/ /\ run'.numFrames = run.numFrames + 1
             /\ m_inFile'.pos > m_inFile.pos]_vars
  /\ (pc \in RunPcs) ~> LeftLoop

====
